---------------------------- MODULE Spec2Model ----------------------------
(***************************************************************************)
(* ShareMyLocation: the expiring in-memory Entity Store (server/storage.ts) *)
(* and the WebSocket broadcast handler with its channel registry           *)
(* (server/routes.ts).                                                     *)
(*                                                                         *)
(* Time is the value of `new Date()`, counted in abstract clock units; one  *)
(* unit stands for 24 hours, so the fleet time-to-live of 24 h is 1 unit.   *)
(* An optional field (JavaScript undefined) is a sequence of length 0 or 1; *)
(* the result of a lookup that may be undefined is a set with 0 or 1        *)
(* elements.                                                               *)
(***************************************************************************)
EXTENDS Integers, Sequences, FiniteSets, TLC

\* ------------------------------------------------------------------ bounds
MaxClock == 2
\* connections the server accepts, and WebSocket messages it receives, in a run
MaxConns == 3
MaxMessages == 4

\* nanoid(): a collision-free generator; the k-th id it returns for a record
\* type is the k-th element of the sequence of that type.
LocIdSeq   == <<"l1">>
FleetIdSeq == <<"f1">>
VehIdSeq   == <<"v1", "v2", "v3", "v4", "v5", "v6", "v7", "v8", "v9">>
\* the vehicles one run of the store or of the server creates
MaxVehicles == 2

Range(s) == {s[i] : i \in 1..Len(s)}
\* the ids a request may name: those of the records and one that names none
LocIds   == Range(LocIdSeq) \cup {"l2"}
FleetIds == Range(FleetIdSeq) \cup {"f2"}
VehIds   == {VehIdSeq[k] : k \in 1..MaxVehicles}
\* the channel keys that WebSocket messages name
LocKeys   == {"l1"}
FleetKeys == {"f1"}
VehKeys   == {"v1"}

\* coordinates a client may send; creation uses <<0, 0>>
Positions == {<<1, 1>>, <<2, 2>>}

\* the values JSON.parse gives the fields of message.data: numbers and strings
JsonNumber(n) == [type |-> "number", n |-> n]
JsonString == [type |-> "string", n |-> 0]
\* the number JSON.parse gives for a literal beyond the double range (1e999)
Infinity == 1000

\* ------------------------------------------------------- program constants
VEHICLE_COLORS ==
  <<"#ef4444", "#3b82f6", "#22c55e", "#f59e0b",
    "#8b5cf6", "#ec4899", "#06b6d4", "#f97316">>

\* 24 * 60 * 60 * 1000 ms, in clock units of 24 h
FleetTtl == 1
\* `insertLocation.expiresInMinutes || 1440`, in clock units of 24 h
DefaultExpiry == 1
\* expiresInMinutes as sent by a client: 0 stands for "not given"
ExpiryChoices == {0, 1}

VARIABLES
  now,            \* the wall clock read by `new Date()`
  locations,      \* MemStorage.locations : id -> Location
  fleets,         \* MemStorage.fleets    : id -> Fleet
  vehicles,       \* MemStorage.vehicles  : id -> Vehicle
  createdLocs,    \* history: expiresAt of the k-th created location
  createdFleets,  \* history: expiresAt of the k-th created fleet
  createdVehs,    \* history: fleetId of the k-th created vehicle
  last,           \* history: the operation handled by the last step, its result
  conn,           \* per connection: readyState, the four closure variables, history
  locationSubscribers,       \* Map<string, Set<WebSocket>>
  sharerConnections,         \* Map<string, WebSocket>, as a set of <<key, value>> entries
  fleetSubscribers,          \* Map<string, Set<WebSocket>>
  vehicleSharerConnections,  \* Map<string, WebSocket>, as a set of <<key, value>> entries
  mq,             \* the microtask queue: continuations of suspended async handlers
  sent,           \* history: the messages the last step sent, in order
  nmsgs,          \* the number of WebSocket messages received so far
  workload,       \* the channels the environment uses in this run: "solo" or "fleet"
  viewer,         \* the refs of the viewer hook (useLocationViewer / useFleetViewer)
                  \* and its state: isLive (solo), the vehicle list (fleet)
  browser,        \* the viewer's WebSocket objects, pending timeouts, active intervals,
                  \* and whether a fetch of refresh() is in flight
  wire,           \* the messages the viewer has sent that the server has not yet received
  sharer,         \* the refs of the publisher hook (useLocationSharer / useVehicleSharer)
  device,         \* the publisher's WebSocket objects, timers, position watches and reads
  lock            \* the Screen Wake Lock API as the publisher sees it: pending requests,
                  \* the sentinels that hold a lock, their 'release' listeners

storeVars == <<now, locations, fleets, vehicles, createdLocs, createdFleets, createdVehs>>
registryVars == <<locationSubscribers, sharerConnections, fleetSubscribers,
                  vehicleSharerConnections>>
viewerVars == <<viewer, browser, wire>>
sharerVars == <<sharer, device, lock>>
clientVars == <<viewerVars, sharerVars>>
serverVars == <<conn, registryVars, mq, sent, nmsgs, workload, clientVars>>
vars == <<storeVars, last, serverVars>>

\* ---------------------------------------------------------------- helpers
Remove(m, k) == [x \in DOMAIN m \ {k} |-> m[x]]
Put(m, k, v) == [x \in DOMAIN m \cup {k} |-> IF x = k THEN v ELSE m[x]]
TheOne(S) == CHOOSE x \in S : TRUE

IndexOf(s, e) == CHOOSE i \in 1..Len(s) : s[i] = e

RECURSIVE FilterSeq(_, _, _)
\* the elements of the Map `m`, in insertion order (ids are inserted in the
\* order of idSeq), restricted to those for which keep is true
FilterSeq(idSeq, m, keepFleet) ==
  IF idSeq = <<>> THEN <<>>
  ELSE LET h == Head(idSeq)
           rest == FilterSeq(Tail(idSeq), m, keepFleet)
       IN IF h \in DOMAIN m /\ m[h].fleetId = keepFleet
          THEN <<m[h]>> \o rest ELSE rest

\* ------------------------------------------------------------ Entity Store
\* new Date(expiresAt) < new Date()
IsExpired(rec, t) == rec.expiresAt < t

\* faulty variant: an expired record is reported as not-found but kept
getLocationKeepsExpired(L, id, t) ==
  IF id \notin DOMAIN L THEN [locations |-> L, res |-> {}]
  ELSE IF IsExpired(L[id], t) THEN [locations |-> L, res |-> {}]
  ELSE [locations |-> L, res |-> {L[id]}]

getLocation(L, id, t) ==
  IF id \notin DOMAIN L THEN [locations |-> L, res |-> {}]
  ELSE IF IsExpired(L[id], t) THEN [locations |-> Remove(L, id), res |-> {}]
  ELSE [locations |-> L, res |-> {L[id]}]

createLocation(L, id, ins, t) ==
  LET expiryMinutes == IF ins.expiresInMinutes = 0 THEN DefaultExpiry
                       ELSE ins.expiresInMinutes
      location == [id |-> id,
                   latitude |-> ins.latitude,
                   longitude |-> ins.longitude,
                   name |-> ins.name,
                   createdAt |-> t,
                   expiresAt |-> t + expiryMinutes,
                   isLive |-> ins.isLive,
                   lastUpdated |-> t]
  IN [locations |-> Put(L, id, location), res |-> {location}]

\* faulty variant: the two coordinates are written one at a time, and the
\* write of the longitude is not reached
updateLocationSetLatitude(L, id, location, update, t) ==
  LET updatedLocation == [location EXCEPT !.latitude = update[1],
                                          !.lastUpdated = t]
  IN [locations |-> Put(L, id, updatedLocation), res |-> {updatedLocation}]

\* faulty variant: the write also starts a new lifetime of the record
updateLocationSetRenews(L, id, location, update, t) ==
  LET updatedLocation == [location EXCEPT !.latitude = update[1],
                                          !.longitude = update[2],
                                          !.lastUpdated = t,
                                          !.expiresAt = t + DefaultExpiry]
  IN [locations |-> Put(L, id, updatedLocation), res |-> {updatedLocation}]

\* the part of updateLocation after `await this.getLocation(id)`: `location`
\* is the record that getLocation returned
updateLocationSet(L, id, location, update, t) ==
  LET updatedLocation == [location EXCEPT !.latitude = update[1],
                                          !.longitude = update[2],
                                          !.lastUpdated = t]
  IN [locations |-> Put(L, id, updatedLocation), res |-> {updatedLocation}]

updateLocation(L, id, update, t) ==
  LET g == getLocation(L, id, t)
  IN IF g.res = {} THEN [locations |-> g.locations, res |-> {}]
     ELSE updateLocationSet(g.locations, id, TheOne(g.res), update, t)

deleteLocation(L, id) ==
  [locations |-> Remove(L, id), res |-> id \in DOMAIN L]

getFleet(F, V, id, t) ==
  IF id \notin DOMAIN F THEN [fleets |-> F, vehicles |-> V, res |-> {}]
  ELSE IF IsExpired(F[id], t)
       THEN [fleets |-> Remove(F, id),
             vehicles |-> [v \in {x \in DOMAIN V : V[x].fleetId # id} |-> V[v]],
             res |-> {}]
       ELSE [fleets |-> F, vehicles |-> V, res |-> {F[id]}]

getFleetByAdminCode(F, adminCode, t) ==
  {F[f] : f \in {x \in DOMAIN F : F[x].adminCode = adminCode /\ F[x].expiresAt >= t}}

createFleet(F, id, ins, t) ==
  LET fleet == [id |-> id,
                name |-> ins.name,
                createdAt |-> t,
                expiresAt |-> t + FleetTtl,
                adminCode |-> <<"admin", id>>]
  IN [fleets |-> Put(F, id, fleet), res |-> {fleet}]

getVehicle(V, id) == IF id \in DOMAIN V THEN {V[id]} ELSE {}

getVehicleByShareCode(V, shareCode) ==
  LET hits == {v \in DOMAIN V : V[v].shareCode = shareCode}
  IN IF hits = {} THEN {}
     ELSE {V[CHOOSE v \in hits : \A w \in hits : IndexOf(VehIdSeq, v) <= IndexOf(VehIdSeq, w)]}

\* the part of getVehiclesByFleet after `await this.getFleet(fleetId)`
vehiclesOfFleet(V, fleetId) == FilterSeq(VehIdSeq, V, fleetId)

getVehiclesByFleet(F, V, fleetId, t) ==
  LET g == getFleet(F, V, fleetId, t)
  IN IF g.res = {} THEN [fleets |-> g.fleets, vehicles |-> g.vehicles, res |-> <<>>]
     ELSE [fleets |-> g.fleets, vehicles |-> g.vehicles,
           res |-> vehiclesOfFleet(g.vehicles, fleetId)]

\* faulty variant: the color follows a counter of the vehicles ever created
createVehicleCounted(F, V, id, ins, t) ==
  LET g == getVehiclesByFleet(F, V, ins.fleetId, t)
      colorIndex == (IndexOf(VehIdSeq, id) - 1) % Len(VEHICLE_COLORS)
      vehicle == [id |-> id,
                  fleetId |-> ins.fleetId,
                  name |-> ins.name,
                  color |-> IF ins.color # <<>> THEN ins.color[1]
                            ELSE VEHICLE_COLORS[colorIndex + 1],
                  shareCode |-> <<"share", id>>,
                  latitude |-> <<>>,
                  longitude |-> <<>>,
                  isLive |-> FALSE,
                  lastUpdated |-> <<>>]
  IN [fleets |-> g.fleets, vehicles |-> Put(g.vehicles, id, vehicle), res |-> {vehicle}]

createVehicle(F, V, id, ins, t) ==
  LET g == getVehiclesByFleet(F, V, ins.fleetId, t)
      colorIndex == Len(g.res) % Len(VEHICLE_COLORS)
      vehicle == [id |-> id,
                  fleetId |-> ins.fleetId,
                  name |-> ins.name,
                  color |-> IF ins.color # <<>> THEN ins.color[1]
                            ELSE VEHICLE_COLORS[colorIndex + 1],
                  shareCode |-> <<"share", id>>,
                  latitude |-> <<>>,
                  longitude |-> <<>>,
                  isLive |-> FALSE,
                  lastUpdated |-> <<>>]
  IN [fleets |-> g.fleets, vehicles |-> Put(g.vehicles, id, vehicle), res |-> {vehicle}]

updateVehicle(V, id, update, t) ==
  IF id \notin DOMAIN V THEN [vehicles |-> V, res |-> {}]
  ELSE LET updatedVehicle == [V[id] EXCEPT !.latitude = <<update[1]>>,
                                           !.longitude = <<update[2]>>,
                                           !.lastUpdated = <<t>>]
       IN [vehicles |-> Put(V, id, updatedVehicle), res |-> {updatedVehicle}]

updateVehicleLiveStatus(V, id, isLive, t) ==
  IF id \notin DOMAIN V THEN [vehicles |-> V, res |-> {}]
  ELSE LET updatedVehicle == [V[id] EXCEPT !.isLive = isLive,
                                           !.lastUpdated = <<t>>]
       IN [vehicles |-> Put(V, id, updatedVehicle), res |-> {updatedVehicle}]

deleteVehicle(V, id) ==
  [vehicles |-> Remove(V, id), res |-> id \in DOMAIN V]


\* ---------------------------------------------------------------- initial
NULL == "null"

\* a browser without navigator.wakeLock
NoWakeLockApi ==
  [supported |-> FALSE,
   requests |-> 0,      \* requests the platform has not settled yet
   asked |-> 0,         \* history: the number of requests made
   granted |-> 0,       \* the number of sentinels created; sentinel k is the k-th
   held |-> {},         \* the sentinels not released
   listeners |-> {},    \* the sentinels with handleWakeLockRelease attached
   effectFor |-> FALSE] \* the value of isSharing the release effect last ran for

InitButLock ==
  /\ now = 0
  /\ locations = <<>>
  /\ fleets = <<>>
  /\ vehicles = <<>>
  /\ createdLocs = <<>>
  /\ createdFleets = <<>>
  /\ createdVehs = <<>>
  /\ last = [op |-> "init", conn |-> 0, key |-> NULL, res |-> {}, data |-> <<>>]
  /\ conn = <<>>
  /\ locationSubscribers = <<>>
  /\ sharerConnections = {}
  /\ fleetSubscribers = <<>>
  /\ vehicleSharerConnections = {}
  /\ mq = <<>>
  /\ sent = <<>>
  /\ nmsgs = 0
  /\ workload \in {"solo", "fleet"}
  /\ viewer = [mounted |-> FALSE, shouldBeViewing |-> TRUE, wsRef |-> 0,
               heartbeatRef |-> 0, reconnectTimeoutRef |-> <<>>,
               isLive |-> FALSE, vehicles |-> <<>>]
  /\ browser = [sockets |-> <<>>, timeouts |-> {}, intervals |-> {}, fetching |-> FALSE]
  /\ wire = <<>>
  /\ sharer = [mounted |-> TRUE, shouldBeSharing |-> FALSE, wsRef |-> 0,
               heartbeatRef |-> 0, reconnectTimeoutRef |-> <<>>,
               watchIdRef |-> 0, lastLocationRef |-> FALSE,
               wakeLockRef |-> 0, isSharing |-> FALSE]
  /\ device = [sockets |-> <<>>, timeouts |-> {}, intervals |-> {},
               watches |-> {}, reads |-> {}]

Init == InitButLock /\ lock = NoWakeLockApi

\* a browser with navigator.wakeLock
InitWakeLock == InitButLock /\ lock = [NoWakeLockApi EXCEPT !.supported = TRUE]

\* the event loop runs a request handler (a macrotask) only when no microtask
\* is pending
Idle == mq = <<>>

\* ------------------------------------------------------------------ clock
\* Only differences between timestamps matter, so the clock is left at 0 until
\* the first record exists.
Tick ==
  /\ Idle
  /\ now < MaxClock
  /\ createdLocs # <<>> \/ createdFleets # <<>>
  /\ now' = now + 1
  /\ last' = [op |-> "tick", conn |-> 0, key |-> NULL, res |-> {}, data |-> <<>>]
  /\ sent' = <<>>
  /\ UNCHANGED <<locations, fleets, vehicles, createdLocs, createdFleets, createdVehs,
                 conn, registryVars, mq, nmsgs, workload, clientVars>>

\* ------------------------------------------------------- HTTP route handlers
HttpDone(op, key, res) ==
  /\ last' = [op |-> op, conn |-> 0, key |-> key, res |-> res, data |-> <<>>]
  /\ sent' = <<>>
  /\ UNCHANGED <<now, conn, registryVars, mq, nmsgs, workload, clientVars>>

\* POST /api/locations
PostLocation(ins) ==
  /\ Idle
  /\ Len(createdLocs) < Len(LocIdSeq)
  /\ LET id == LocIdSeq[Len(createdLocs) + 1]
         r == createLocation(locations, id, ins, now)
     IN /\ locations' = r.locations
        /\ createdLocs' = Append(createdLocs, TheOne(r.res).expiresAt)
        /\ HttpDone("createLocation", id, r.res)
  /\ UNCHANGED <<fleets, vehicles, createdFleets, createdVehs>>

\* GET /api/locations/:id
GetLocationRoute(id) ==
  /\ Idle
  /\ LET r == getLocation(locations, id, now)
     IN /\ locations' = r.locations
        /\ HttpDone("getLocation", id, r.res)
  /\ UNCHANGED <<fleets, vehicles, createdLocs, createdFleets, createdVehs>>

\* DELETE /api/locations/:id
DeleteLocationRoute(id) ==
  /\ Idle
  /\ LET r == deleteLocation(locations, id)
     IN /\ locations' = r.locations
        /\ HttpDone("deleteLocation", id, {r.res})
  /\ UNCHANGED <<fleets, vehicles, createdLocs, createdFleets, createdVehs>>

\* POST /api/fleets
PostFleet ==
  /\ Idle
  /\ Len(createdFleets) < Len(FleetIdSeq)
  /\ LET id == FleetIdSeq[Len(createdFleets) + 1]
         r == createFleet(fleets, id, [name |-> "fleet"], now)
     IN /\ fleets' = r.fleets
        /\ createdFleets' = Append(createdFleets, TheOne(r.res).expiresAt)
        /\ HttpDone("createFleet", id, r.res)
  /\ UNCHANGED <<locations, vehicles, createdLocs, createdVehs>>

\* faulty variant: the record is sent as stored
wholeFleet(fleet) == fleet

\* const { adminCode, ...publicFleet } = fleet
publicFleet(fleet) == [f \in DOMAIN fleet \ {"adminCode"} |-> fleet[f]]

\* GET /api/fleets/:id
GetFleetRoute(id) ==
  /\ Idle
  /\ LET r == getFleet(fleets, vehicles, id, now)
     IN /\ fleets' = r.fleets
        /\ vehicles' = r.vehicles
        /\ HttpDone("getFleet", id, {publicFleet(fleet) : fleet \in r.res})
  /\ UNCHANGED <<locations, createdLocs, createdFleets, createdVehs>>

\* POST /api/vehicles
PostVehicle(fleetId) ==
  /\ Idle
  /\ Len(createdVehs) < Len(VehIdSeq)
  /\ LET g == getFleet(fleets, vehicles, fleetId, now)
         id == VehIdSeq[Len(createdVehs) + 1]
         ins == [fleetId |-> fleetId, name |-> "vehicle", color |-> <<>>]
         r == createVehicle(g.fleets, g.vehicles, id, ins, now)
     IN IF g.res = {}
        THEN /\ fleets' = g.fleets
             /\ vehicles' = g.vehicles
             /\ createdVehs' = createdVehs
             /\ HttpDone("createVehicle", fleetId, {})
        ELSE /\ fleets' = r.fleets
             /\ vehicles' = r.vehicles
             /\ createdVehs' = Append(createdVehs, fleetId)
             /\ HttpDone("createVehicle", id, r.res)
  /\ UNCHANGED <<locations, createdLocs, createdFleets>>

\* GET /api/fleets/:fleetId/vehicles
GetFleetVehiclesRoute(fleetId) ==
  /\ Idle
  /\ LET g == getFleet(fleets, vehicles, fleetId, now)
         r == getVehiclesByFleet(g.fleets, g.vehicles, fleetId, now)
     IN /\ fleets' = r.fleets
        /\ vehicles' = r.vehicles
        /\ HttpDone("getVehiclesByFleet", fleetId, r.res)
  /\ UNCHANGED <<locations, createdLocs, createdFleets, createdVehs>>

\* GET /api/vehicles/:id
GetVehicleRoute(id) ==
  /\ Idle
  /\ HttpDone("getVehicle", id, getVehicle(vehicles, id))
  /\ UNCHANGED <<locations, fleets, vehicles, createdLocs, createdFleets, createdVehs>>

\* DELETE /api/vehicles/:id
DeleteVehicleRoute(id) ==
  /\ Idle
  /\ LET r == deleteVehicle(vehicles, id)
     IN /\ vehicles' = r.vehicles
        /\ HttpDone("deleteVehicle", id, {r.res})
  /\ UNCHANGED <<locations, fleets, createdLocs, createdFleets, createdVehs>>

\* the store methods that only the WebSocket handler calls, called on their own
StoreUpdateLocation(id, update) ==
  /\ Idle
  /\ LET r == updateLocation(locations, id, update, now)
     IN /\ locations' = r.locations
        /\ HttpDone("updateLocation", id, r.res)
  /\ UNCHANGED <<fleets, vehicles, createdLocs, createdFleets, createdVehs>>

StoreUpdateVehicle(id, update) ==
  /\ Idle
  /\ LET r == updateVehicle(vehicles, id, update, now)
     IN /\ vehicles' = r.vehicles
        /\ HttpDone("updateVehicle", id, r.res)
  /\ UNCHANGED <<locations, fleets, createdLocs, createdFleets, createdVehs>>

StoreUpdateVehicleLiveStatus(id, isLive) ==
  /\ Idle
  /\ LET r == updateVehicleLiveStatus(vehicles, id, isLive, now)
     IN /\ vehicles' = r.vehicles
        /\ HttpDone("updateVehicleLiveStatus", id, r.res)
  /\ UNCHANGED <<locations, fleets, createdLocs, createdFleets, createdVehs>>

InsertLocations ==
  {[latitude |-> 0, longitude |-> 0, name |-> "pin", isLive |-> l, expiresInMinutes |-> e] :
     l \in BOOLEAN, e \in ExpiryChoices}

\* ------------------------------------------------------ Channel Registry
\* Map.get(key) of a Map<string, Set<WebSocket>>; {} stands for undefined
Subscribers(map, key) == IF key \in DOMAIN map THEN map[key] ELSE {}

\* if (!map.has(key)) map.set(key, new Set()); map.get(key).add(ws)
AddSubscriber(map, key, ws) == Put(map, key, Subscribers(map, key) \cup {ws})

\* subscribers.delete(ws); if (subscribers.size === 0) map.delete(key)
DropSubscriber(map, key, ws) ==
  IF key \notin DOMAIN map THEN map
  ELSE IF map[key] \ {ws} = {} THEN Remove(map, key)
  ELSE Put(map, key, map[key] \ {ws})

\* faulty variant: the entry is added beside the one the key already has
MapSetKeepsOld(entries, key, ws) == entries \cup {<<key, ws>>}

\* Map.set(key, ws) and Map.delete(key) of a Map<string, WebSocket>
MapSet(entries, key, ws) == {e \in entries : e[1] # key} \cup {<<key, ws>>}
MapDelete(entries, key) == {e \in entries : e[1] # key}

IsOpen(c) == conn[c].readyState = "OPEN"

RECURSIVE SetToSeq(_)
SetToSeq(S) ==
  IF S = {} THEN <<>>
  ELSE LET x == CHOOSE y \in S : \A z \in S : y <= z
       IN <<x>> \o SetToSeq(S \ {x})

RECURSIVE UpToNotOpen(_)
\* the longest prefix of open connections
UpToNotOpen(cs) ==
  IF cs = <<>> \/ ~IsOpen(Head(cs)) THEN <<>>
  ELSE <<Head(cs)>> \o UpToNotOpen(Tail(cs))

\* faulty variant: the loop ends at the first subscriber that is not open
FanOutStopsAtNotOpen(subscribers, type, data) ==
  LET open == UpToNotOpen(SetToSeq(subscribers))
  IN [i \in 1..Len(open) |-> [to |-> open[i], type |-> type, data |-> data]]

\* subscribers.forEach(s => { if (s.readyState === WebSocket.OPEN) s.send(msg) })
FanOut(subscribers, type, data) ==
  LET open == SelectSeq(SetToSeq(subscribers), IsOpen)
  IN [i \in 1..Len(open) |-> [to |-> open[i], type |-> type, data |-> data]]

\* ws.send(msg) of the handler's own connection: nothing leaves a socket that
\* is not open
SendTo(c, type, data) ==
  IF IsOpen(c) THEN <<[to |-> c, type |-> type, data |-> data]>> ELSE <<>>

\* ------------------------------------------- Broadcast Protocol Handler
NewConn == [readyState |-> "OPEN",
            subscribedLocationId |-> NULL,
            sharingLocationId |-> NULL,
            subscribedFleetId |-> NULL,
            sharingVehicleId |-> NULL,
            \* history: a stop / stopVehicle received after the last share /
            \* shareVehicle of the connection is being handled
            stopSent |-> FALSE,
            stopVehicleSent |-> FALSE,
            \* history: the stop / stopVehicle branch has run to its end
            \* since the last share / shareVehicle of the connection
            stopped |-> FALSE]

\* a suspended async handler: the connection it runs for, where it resumes,
\* and the values its locals hold
Cont(c, pc, key, rec, upd) == [conn |-> c, pc |-> pc, key |-> key, rec |-> rec, upd |-> upd]

\* a 'message' event of connection c is emitted while c is open, either as a
\* new macrotask or, for frames that arrived together with earlier ones of
\* the same connection, while the handlers of those are still suspended
CanReceive(c) ==
  /\ c \in DOMAIN conn
  /\ IsOpen(c)
  /\ \A i \in 1..Len(mq) : mq[i].conn = c
  /\ nmsgs < MaxMessages

Resumes(pc) == mq # <<>> /\ Head(mq).pc = pc

Step(op, c, key) == last' = [op |-> op, conn |-> c, key |-> key, res |-> {}, data |-> <<>>]

\* wss.on("connection")
OnConnection ==
  /\ Idle
  /\ Len(conn) < MaxConns
  /\ conn' = Append(conn, NewConn)
  /\ Step("connection", Len(conn) + 1, NULL)
  /\ sent' = <<>>
  /\ UNCHANGED <<storeVars, registryVars, mq, nmsgs, workload>>

\* a connection of a client other than the viewer
Connect ==
  \* a connection is numbered when it first matters: accepting it commutes
  \* with every other step, so it is accepted once the one before it has acted
  /\ IF conn = <<>> THEN TRUE ELSE conn[Len(conn)] # NewConn
  /\ OnConnection
  /\ UNCHANGED clientVars

\* message.type === "subscribe", up to `await storage.getLocation(locId)`
OnSubscribe(c, locId) ==
  /\ CanReceive(c)
  /\ conn' = [conn EXCEPT ![c].subscribedLocationId = locId]
  /\ locationSubscribers' = AddSubscriber(locationSubscribers, locId, c)
  /\ LET g == getLocation(locations, locId, now)
     IN /\ locations' = g.locations
        /\ mq' = Append(mq, Cont(c, "subscribe.send", locId, g.res, <<>>))
  /\ Step("subscribe", c, locId)
  /\ sent' = <<>>
  /\ nmsgs' = nmsgs + 1
  /\ UNCHANGED <<now, fleets, vehicles, createdLocs, createdFleets, createdVehs,
                 sharerConnections, fleetSubscribers, vehicleSharerConnections, workload>>

\* a subscribe of a client other than the viewer
RecvSubscribe(c, locId) == OnSubscribe(c, locId) /\ UNCHANGED clientVars

\* faulty variant: the subscriber is registered but no snapshot is sent
SubscribeSendNothing ==
  /\ Resumes("subscribe.send")
  /\ sent' = <<>>
  /\ Step("subscribe.send", Head(mq).conn, Head(mq).key)
  /\ mq' = Tail(mq)
  /\ UNCHANGED <<storeVars, conn, registryVars, nmsgs, workload, clientVars>>

\* if (location) ws.send({type: "location", data: location})
SubscribeSend ==
  /\ Resumes("subscribe.send")
  /\ LET k == Head(mq)
     IN /\ sent' = IF k.rec # {} THEN SendTo(k.conn, "location", TheOne(k.rec)) ELSE <<>>
        /\ Step("subscribe.send", k.conn, k.key)
  /\ mq' = Tail(mq)
  /\ UNCHANGED <<storeVars, conn, registryVars, nmsgs, workload, clientVars>>

\* message.type === "share"
RecvShare(c, locId) ==
  /\ CanReceive(c)
  /\ conn' = [conn EXCEPT ![c].sharingLocationId = locId, ![c].stopSent = FALSE,
                          ![c].stopped = FALSE]
  /\ sharerConnections' = MapSet(sharerConnections, locId, c)
  /\ Step("share", c, locId)
  /\ sent' = <<>>
  /\ nmsgs' = nmsgs + 1
  /\ UNCHANGED <<storeVars, locationSubscribers, fleetSubscribers,
                 vehicleSharerConnections, mq, workload, clientVars>>

\* z.number(): the value is of type number and is not NaN (JSON.parse yields
\* no NaN); Infinity is a number
zNumber(v) == v.type = "number"

\* locationUpdateSchema / vehicleUpdateSchema .safeParse(data).success:
\* z.object({latitude: z.number(), longitude: z.number()})
ValidUpdate(data) == Len(data) = 2 /\ zNumber(data[1]) /\ zNumber(data[2])

\* parsed.data
ParsedData(data) == <<data[1].n, data[2].n>>

\* message.type === "update" && sharingLocationId, up to the await inside
\* storage.updateLocation
RecvUpdate(c, data) ==
  /\ CanReceive(c)
  /\ IF conn[c].sharingLocationId = NULL \/ ~ValidUpdate(data)
     THEN UNCHANGED <<locations, mq>>
     ELSE LET id == conn[c].sharingLocationId
              g == getLocation(locations, id, now)
          IN /\ locations' = g.locations
             /\ mq' = Append(mq, Cont(c, "update.set", id, g.res, ParsedData(data)))
  \* the history keeps whether the handler went on to the store
  /\ last' = [op |-> "update", conn |-> c, key |-> conn[c].sharingLocationId,
              res |-> IF conn[c].sharingLocationId = NULL \/ ~ValidUpdate(data)
                      THEN {} ELSE {TRUE},
              data |-> data]
  /\ sent' = <<>>
  /\ nmsgs' = nmsgs + 1
  /\ UNCHANGED <<now, fleets, vehicles, createdLocs, createdFleets, createdVehs,
                 conn, registryVars, workload, clientVars>>

\* storage.updateLocation after its await: if (!location) return undefined;
\* this.locations.set(id, updatedLocation)
UpdateSet ==
  /\ Resumes("update.set")
  /\ LET k == Head(mq)
     IN IF k.rec = {}
        THEN /\ mq' = Tail(mq)
             /\ UNCHANGED locations
        ELSE LET r == updateLocationSet(locations, k.key, TheOne(k.rec), k.upd, now)
             IN /\ locations' = r.locations
                /\ mq' = Append(Tail(mq), Cont(k.conn, "update.broadcast", k.key, r.res, k.upd))
  \* the history keeps whether the record was written
  /\ last' = [op |-> "update.set", conn |-> Head(mq).conn, key |-> Head(mq).key,
              res |-> IF Head(mq).rec = {} THEN {} ELSE {TRUE},
              data |-> <<>>]
  /\ sent' = <<>>
  /\ UNCHANGED <<now, fleets, vehicles, createdLocs, createdFleets, createdVehs,
                 conn, registryVars, nmsgs, workload, clientVars>>

\* const subscribers = locationSubscribers.get(sharingLocationId); forEach send
UpdateBroadcast ==
  /\ Resumes("update.broadcast")
  /\ LET k == Head(mq)
         id == conn[k.conn].sharingLocationId
     IN /\ sent' = FanOut(Subscribers(locationSubscribers, id), "location", TheOne(k.rec))
        /\ Step("update.broadcast", k.conn, id)
  /\ mq' = Tail(mq)
  /\ UNCHANGED <<storeVars, conn, registryVars, nmsgs, workload, clientVars>>

\* message.type === "stop" && sharingLocationId, up to
\* `await storage.getLocation(sharingLocationId)`
RecvStop(c) ==
  /\ CanReceive(c)
  /\ IF conn[c].sharingLocationId = NULL
     THEN UNCHANGED <<locations, mq>>
     ELSE LET id == conn[c].sharingLocationId
              g == getLocation(locations, id, now)
          IN /\ locations' = g.locations
             /\ mq' = Append(mq, Cont(c, "stop.update", id, g.res, <<>>))
  /\ conn' = [conn EXCEPT ![c].stopSent = conn[c].sharingLocationId # NULL]
  /\ Step("stop", c, conn[c].sharingLocationId)
  /\ sent' = <<>>
  /\ nmsgs' = nmsgs + 1
  /\ UNCHANGED <<now, fleets, vehicles, createdLocs, createdFleets, createdVehs,
                 registryVars, workload, clientVars>>

\* faulty variant: the branch ends without sharingLocationId = null
StopNotifyEffectKeepsKey(c) ==
  LET id == conn[c].sharingLocationId
  IN /\ sent' = FanOut(Subscribers(locationSubscribers, id), "stopped", <<>>)
     /\ sharerConnections' = MapDelete(sharerConnections, id)
     /\ conn' = [conn EXCEPT ![c].stopSent = FALSE, ![c].stopped = TRUE]

\* the end of the stop branch: notify the subscribers, then
\* sharerConnections.delete(sharingLocationId); sharingLocationId = null
StopNotifyEffect(c) ==
  LET id == conn[c].sharingLocationId
  IN /\ sent' = FanOut(Subscribers(locationSubscribers, id), "stopped", <<>>)
     /\ sharerConnections' = MapDelete(sharerConnections, id)
     /\ conn' = [conn EXCEPT ![c].sharingLocationId = NULL, ![c].stopSent = FALSE,
                             ![c].stopped = TRUE]

\* if (location) await storage.updateLocation(sharingLocationId, {latitude:
\* location.latitude, longitude: location.longitude}), up to the await inside
StopUpdate ==
  /\ Resumes("stop.update")
  /\ LET k == Head(mq)
         id == conn[k.conn].sharingLocationId
         g == getLocation(locations, id, now)
     IN IF k.rec # {}
        THEN /\ locations' = g.locations
             /\ mq' = Append(Tail(mq),
                             Cont(k.conn, "stop.set", id, g.res,
                                  <<TheOne(k.rec).latitude, TheOne(k.rec).longitude>>))
             /\ sent' = <<>>
             /\ UNCHANGED <<conn, sharerConnections>>
        ELSE /\ StopNotifyEffect(k.conn)
             /\ mq' = Tail(mq)
             /\ UNCHANGED locations
  /\ Step("stop.update", Head(mq).conn, Head(mq).key)
  /\ UNCHANGED <<now, fleets, vehicles, createdLocs, createdFleets, createdVehs,
                 locationSubscribers, fleetSubscribers, vehicleSharerConnections,
                 nmsgs, workload, clientVars>>

\* storage.updateLocation after its await, called by the stop branch
StopSet ==
  /\ Resumes("stop.set")
  /\ LET k == Head(mq)
     IN /\ locations' = IF k.rec = {} THEN locations
                        ELSE updateLocationSet(locations, k.key, TheOne(k.rec), k.upd, now).locations
        /\ mq' = Append(Tail(mq), Cont(k.conn, "stop.notify", k.key, {}, <<>>))
        /\ Step("stop.set", k.conn, k.key)
  /\ sent' = <<>>
  /\ UNCHANGED <<now, fleets, vehicles, createdLocs, createdFleets, createdVehs,
                 conn, registryVars, nmsgs, workload, clientVars>>

StopNotify ==
  /\ Resumes("stop.notify")
  /\ StopNotifyEffect(Head(mq).conn)
  /\ Step("stop.notify", Head(mq).conn, Head(mq).key)
  /\ mq' = Tail(mq)
  /\ UNCHANGED <<storeVars, locationSubscribers, fleetSubscribers,
                 vehicleSharerConnections, nmsgs, workload, clientVars>>

\* message.type === "subscribeFleet", up to the await inside
\* storage.getVehiclesByFleet
OnSubscribeFleet(c, fleetId) ==
  /\ CanReceive(c)
  /\ conn' = [conn EXCEPT ![c].subscribedFleetId = fleetId]
  /\ fleetSubscribers' = AddSubscriber(fleetSubscribers, fleetId, c)
  /\ LET g == getFleet(fleets, vehicles, fleetId, now)
     IN /\ fleets' = g.fleets
        /\ vehicles' = g.vehicles
        /\ mq' = Append(mq, Cont(c, "subscribeFleet.list", fleetId, g.res, <<>>))
  /\ Step("subscribeFleet", c, fleetId)
  /\ sent' = <<>>
  /\ nmsgs' = nmsgs + 1
  /\ UNCHANGED <<now, locations, createdLocs, createdFleets, createdVehs,
                 locationSubscribers, sharerConnections, vehicleSharerConnections, workload>>

\* a subscribeFleet of a client other than the viewer
RecvSubscribeFleet(c, fleetId) == OnSubscribeFleet(c, fleetId) /\ UNCHANGED clientVars

\* storage.getVehiclesByFleet after its await: if (!fleet) return []; collect
SubscribeFleetList ==
  /\ Resumes("subscribeFleet.list")
  /\ LET k == Head(mq)
         list == IF k.rec = {} THEN <<>> ELSE vehiclesOfFleet(vehicles, k.key)
     IN /\ Step("subscribeFleet.list", k.conn, k.key)
        /\ mq' = Append(Tail(mq), Cont(k.conn, "subscribeFleet.send", k.key, list, <<>>))
  /\ sent' = <<>>
  /\ UNCHANGED <<storeVars, conn, registryVars, nmsgs, workload, clientVars>>

\* faulty variant: like the subscribe branch, nothing is sent for an empty result
SubscribeFleetSendIfAny ==
  /\ Resumes("subscribeFleet.send")
  /\ LET k == Head(mq)
     IN /\ sent' = IF k.rec # <<>> THEN SendTo(k.conn, "vehicles", k.rec) ELSE <<>>
        /\ Step("subscribeFleet.send", k.conn, k.key)
  /\ mq' = Tail(mq)
  /\ UNCHANGED <<storeVars, conn, registryVars, nmsgs, workload, clientVars>>

\* ws.send({type: "vehicles", data: vehicles})
SubscribeFleetSend ==
  /\ Resumes("subscribeFleet.send")
  /\ LET k == Head(mq)
     IN /\ sent' = SendTo(k.conn, "vehicles", k.rec)
        /\ Step("subscribeFleet.send", k.conn, k.key)
  /\ mq' = Tail(mq)
  /\ UNCHANGED <<storeVars, conn, registryVars, nmsgs, workload, clientVars>>

\* message.type === "shareVehicle"; nothing follows its await but a log line
RecvShareVehicle(c, vehicleId) ==
  /\ CanReceive(c)
  /\ conn' = [conn EXCEPT ![c].sharingVehicleId = vehicleId,
                          ![c].stopVehicleSent = FALSE,
                          ![c].stopped = FALSE]
  /\ vehicleSharerConnections' = MapSet(vehicleSharerConnections, vehicleId, c)
  /\ vehicles' = updateVehicleLiveStatus(vehicles, vehicleId, TRUE, now).vehicles
  /\ Step("shareVehicle", c, vehicleId)
  /\ sent' = <<>>
  /\ nmsgs' = nmsgs + 1
  /\ UNCHANGED <<now, locations, fleets, createdLocs, createdFleets, createdVehs,
                 locationSubscribers, sharerConnections, fleetSubscribers, mq, workload, clientVars>>

\* message.type === "updateVehicle" && sharingVehicleId, up to
\* `await storage.updateVehicle(...)`
RecvUpdateVehicle(c, data) ==
  /\ CanReceive(c)
  /\ IF conn[c].sharingVehicleId = NULL \/ ~ValidUpdate(data)
     THEN UNCHANGED <<vehicles, mq>>
     ELSE LET id == conn[c].sharingVehicleId
              r == updateVehicle(vehicles, id, ParsedData(data), now)
          IN /\ vehicles' = r.vehicles
             /\ mq' = IF r.res = {} THEN mq
                      ELSE Append(mq, Cont(c, "updateVehicle.broadcast", id, r.res, ParsedData(data)))
  \* the history keeps whether the handler went on to the store
  /\ last' = [op |-> "updateVehicle", conn |-> c, key |-> conn[c].sharingVehicleId,
              res |-> IF conn[c].sharingVehicleId = NULL \/ ~ValidUpdate(data)
                      THEN {} ELSE {TRUE},
              data |-> data]
  /\ sent' = <<>>
  /\ nmsgs' = nmsgs + 1
  /\ UNCHANGED <<now, locations, fleets, createdLocs, createdFleets, createdVehs,
                 conn, registryVars, workload, clientVars>>

\* const subscribers = fleetSubscribers.get(updated.fleetId); forEach send
UpdateVehicleBroadcast ==
  /\ Resumes("updateVehicle.broadcast")
  /\ LET k == Head(mq)
         updated == TheOne(k.rec)
     IN /\ sent' = FanOut(Subscribers(fleetSubscribers, updated.fleetId),
                          "vehicleUpdate", updated)
        /\ Step("updateVehicle.broadcast", k.conn, k.key)
  /\ mq' = Tail(mq)
  /\ UNCHANGED <<storeVars, conn, registryVars, nmsgs, workload, clientVars>>

\* message.type === "stopVehicle" && sharingVehicleId, up to
\* `await storage.getVehicle(sharingVehicleId)`
RecvStopVehicle(c) ==
  /\ CanReceive(c)
  /\ IF conn[c].sharingVehicleId = NULL
     THEN UNCHANGED mq
     ELSE LET id == conn[c].sharingVehicleId
          IN mq' = Append(mq, Cont(c, "stopVehicle.live", id, getVehicle(vehicles, id), <<>>))
  /\ conn' = [conn EXCEPT ![c].stopVehicleSent = conn[c].sharingVehicleId # NULL]
  /\ Step("stopVehicle", c, conn[c].sharingVehicleId)
  /\ sent' = <<>>
  /\ nmsgs' = nmsgs + 1
  /\ UNCHANGED <<storeVars, registryVars, workload, clientVars>>

\* vehicleSharerConnections.delete(sharingVehicleId); sharingVehicleId = null
StopVehicleEndEffect(c) ==
  /\ vehicleSharerConnections' =
       MapDelete(vehicleSharerConnections, conn[c].sharingVehicleId)
  /\ conn' = [conn EXCEPT ![c].sharingVehicleId = NULL, ![c].stopVehicleSent = FALSE,
                          ![c].stopped = TRUE]

\* if (vehicle) await storage.updateVehicleLiveStatus(sharingVehicleId, false)
StopVehicleLive ==
  /\ Resumes("stopVehicle.live")
  /\ LET k == Head(mq)
         id == conn[k.conn].sharingVehicleId
     IN IF k.rec # {}
        THEN /\ vehicles' = updateVehicleLiveStatus(vehicles, id, FALSE, now).vehicles
             /\ mq' = Append(Tail(mq), Cont(k.conn, "stopVehicle.notify", k.key, k.rec, <<>>))
             /\ UNCHANGED <<conn, vehicleSharerConnections>>
        ELSE /\ StopVehicleEndEffect(k.conn)
             /\ mq' = Tail(mq)
             /\ UNCHANGED vehicles
  /\ Step("stopVehicle.live", Head(mq).conn, Head(mq).key)
  /\ sent' = <<>>
  /\ UNCHANGED <<now, locations, fleets, createdLocs, createdFleets, createdVehs,
                 locationSubscribers, sharerConnections, fleetSubscribers,
                 nmsgs, workload, clientVars>>

\* notify fleetSubscribers.get(vehicle.fleetId) of vehicleStopped, then the end
StopVehicleNotify ==
  /\ Resumes("stopVehicle.notify")
  /\ LET k == Head(mq)
     IN /\ sent' = FanOut(Subscribers(fleetSubscribers, TheOne(k.rec).fleetId),
                          "vehicleStopped", conn[k.conn].sharingVehicleId)
        /\ StopVehicleEndEffect(k.conn)
        /\ Step("stopVehicle.notify", k.conn, k.key)
  /\ mq' = Tail(mq)
  /\ UNCHANGED <<storeVars, locationSubscribers, sharerConnections, fleetSubscribers,
                 nmsgs, workload, clientVars>>

\* the peer's close frame arrives: readyState becomes CLOSING; no further
\* 'message' event is emitted for the connection
PeerClosing(c) ==
  /\ c \in DOMAIN conn
  /\ IsOpen(c)
  /\ \A i \in 1..Len(mq) : mq[i].conn = c
  \* the state CLOSING differs from CLOSED only for a connection that something
  \* may still be sent to
  /\ \/ mq # <<>>
     \/ \E k \in DOMAIN locationSubscribers : c \in locationSubscribers[k]
     \/ \E k \in DOMAIN fleetSubscribers : c \in fleetSubscribers[k]
  /\ conn' = [conn EXCEPT ![c].readyState = "CLOSING"]
  /\ Step("closing", c, NULL)
  /\ sent' = <<>>
  /\ UNCHANGED <<storeVars, registryVars, mq, nmsgs, workload, clientVars>>

\* ws.on("close"): the socket is gone (readyState CLOSED); the handler's awaits
\* resolve before any other event is handled, so it runs as one step
Close(c) ==
  /\ Idle
  /\ c \in DOMAIN conn
  /\ conn[c].readyState # "CLOSED"
  \* the close of a connection that never sent a message changes nothing
  /\ conn[c] # NewConn
  /\ conn' = [conn EXCEPT ![c].readyState = "CLOSED"]
  \* the closed socket itself is in no fan-out: its readyState is CLOSED
  /\ LET me == conn[c]
         locSubs == IF me.subscribedLocationId # NULL
                    THEN DropSubscriber(locationSubscribers, me.subscribedLocationId, c)
                    ELSE locationSubscribers
         fleetSubs == IF me.subscribedFleetId # NULL
                      THEN DropSubscriber(fleetSubscribers, me.subscribedFleetId, c)
                      ELSE fleetSubscribers
         vehicle == getVehicle(vehicles, me.sharingVehicleId)
         stopped == IF me.sharingLocationId # NULL
                    THEN FanOut(Subscribers(locSubs, me.sharingLocationId) \ {c},
                                "stopped", <<>>)
                    ELSE <<>>
         vehicleStopped ==
                    IF me.sharingVehicleId # NULL /\ vehicle # {}
                    THEN FanOut(Subscribers(fleetSubs, TheOne(vehicle).fleetId) \ {c},
                                "vehicleStopped", me.sharingVehicleId)
                    ELSE <<>>
     IN /\ locationSubscribers' = locSubs
        /\ fleetSubscribers' = fleetSubs
        /\ sharerConnections' = IF me.sharingLocationId # NULL
                                THEN MapDelete(sharerConnections, me.sharingLocationId)
                                ELSE sharerConnections
        /\ vehicleSharerConnections' =
             IF me.sharingVehicleId # NULL
             THEN MapDelete(vehicleSharerConnections, me.sharingVehicleId)
             ELSE vehicleSharerConnections
        /\ vehicles' = IF me.sharingVehicleId # NULL /\ vehicle # {}
                       THEN updateVehicleLiveStatus(vehicles, me.sharingVehicleId,
                                                    FALSE, now).vehicles
                       ELSE vehicles
        /\ sent' = stopped \o vehicleStopped
  /\ Step("close", c, NULL)
  /\ UNCHANGED <<now, locations, fleets, createdLocs, createdFleets, createdVehs,
                 mq, nmsgs, workload, clientVars>>

\* a frame that is not JSON: JSON.parse throws, the catch logs the error
RecvUnparseable(c) ==
  /\ CanReceive(c)
  /\ Step("unparseable", c, NULL)
  /\ sent' = <<>>
  /\ nmsgs' = nmsgs + 1
  /\ UNCHANGED <<storeVars, conn, registryVars, mq, workload, clientVars>>

\* message.data of a well-formed update
WellFormed(p) == <<JsonNumber(p[1]), JsonNumber(p[2])>>

\* what a client may put in the data field of an update: coordinates, no data,
\* a latitude that is a string, a latitude that is not finite
Payloads ==
  {WellFormed(p) : p \in Positions}
    \cup {<<>>, <<JsonString, JsonNumber(1)>>, <<JsonNumber(Infinity), JsonNumber(1)>>}

\* --------------------------------------------------------------- the server
LiveInserts == {ins \in InsertLocations : ins.isLive}

Next ==
  \/ Tick
  \/ Connect
  \/ \E c \in 1..MaxConns : PeerClosing(c)
  \/ \E c \in 1..MaxConns : Close(c)
  \/ \E c \in 1..MaxConns : RecvUnparseable(c)
  \/ workload = "solo" /\ \E ins \in LiveInserts : PostLocation(ins)
  \/ workload = "solo" /\ \E id \in LocKeys : DeleteLocationRoute(id)
  \/ workload = "solo" /\ \E c \in 1..MaxConns, id \in LocKeys : RecvSubscribe(c, id)
  \/ workload = "solo" /\ \E c \in 1..MaxConns, id \in LocKeys : RecvShare(c, id)
  \/ workload = "solo" /\ \E c \in 1..MaxConns, d \in Payloads : RecvUpdate(c, d)
  \/ workload = "solo" /\ \E c \in 1..MaxConns : RecvStop(c)
  \/ SubscribeSend
  \/ UpdateSet
  \/ UpdateBroadcast
  \/ StopUpdate
  \/ StopSet
  \/ StopNotify
  \/ workload = "fleet" /\ PostFleet
  \* the server is exercised with one vehicle; SpecStore creates several
  \/ workload = "fleet" /\ createdVehs = <<>> /\ \E id \in FleetKeys : PostVehicle(id)
  \/ workload = "fleet" /\ \E id \in VehKeys : DeleteVehicleRoute(id)
  \/ workload = "fleet" /\ \E c \in 1..MaxConns, id \in FleetKeys : RecvSubscribeFleet(c, id)
  \/ workload = "fleet" /\ \E c \in 1..MaxConns, id \in VehKeys : RecvShareVehicle(c, id)
  \/ workload = "fleet" /\ \E c \in 1..MaxConns, d \in Payloads : RecvUpdateVehicle(c, d)
  \/ workload = "fleet" /\ \E c \in 1..MaxConns : RecvStopVehicle(c)
  \/ SubscribeFleetList
  \/ SubscribeFleetSend
  \/ UpdateVehicleBroadcast
  \/ StopVehicleLive
  \/ StopVehicleNotify

Spec == Init /\ [][Next]_vars

\* The server with the public reads of a fleet over HTTP beside the
\* WebSocket traffic.
PublicNext ==
  \/ Next
  \/ workload = "fleet" /\ \E id \in FleetIds : GetFleetRoute(id)
  \/ workload = "fleet" /\ \E id \in FleetIds : GetFleetVehiclesRoute(id)

SpecPublic == Init /\ [][PublicNext]_vars

\* ------------------------------- the registry with several channel keys
\* the handlers that register and unregister connections, with messages that
\* name any location, fleet or vehicle id
RolesNext ==
  \/ Connect
  \/ workload = "solo" /\ \E ins \in LiveInserts : PostLocation(ins)
  \/ workload = "fleet" /\ PostFleet
  \/ workload = "fleet" /\ createdVehs = <<>> /\ \E id \in FleetKeys : PostVehicle(id)
  \/ \E c \in 1..MaxConns : PeerClosing(c)
  \/ \E c \in 1..MaxConns : Close(c)
  \/ workload = "solo" /\ \E c \in 1..MaxConns, id \in LocIds : RecvSubscribe(c, id)
  \/ workload = "solo" /\ \E c \in 1..MaxConns, id \in LocIds : RecvShare(c, id)
  \/ workload = "solo" /\ \E c \in 1..MaxConns : RecvStop(c)
  \/ SubscribeSend
  \/ StopUpdate
  \/ StopSet
  \/ StopNotify
  \/ workload = "fleet" /\ \E c \in 1..MaxConns, id \in FleetIds : RecvSubscribeFleet(c, id)
  \/ workload = "fleet" /\ \E c \in 1..MaxConns, id \in VehIds : RecvShareVehicle(c, id)
  \/ workload = "fleet" /\ \E c \in 1..MaxConns : RecvStopVehicle(c)
  \/ SubscribeFleetList
  \/ SubscribeFleetSend
  \/ StopVehicleLive
  \/ StopVehicleNotify

SpecRoles == Init /\ [][RolesNext]_vars

\* ------------------------------------------- the Entity Store on its own
StoreNext ==
  \/ Tick
  \/ workload = "solo" /\ \E ins \in InsertLocations : PostLocation(ins)
  \/ workload = "solo" /\ \E id \in LocIds : GetLocationRoute(id)
  \/ workload = "solo" /\ \E id \in LocIds : DeleteLocationRoute(id)
  \/ workload = "solo" /\ \E id \in LocIds, u \in Positions : StoreUpdateLocation(id, u)
  \/ workload = "fleet" /\ PostFleet
  \/ workload = "fleet" /\ \E id \in FleetIds : GetFleetRoute(id)
  \/ workload = "fleet" /\ Len(createdVehs) < MaxVehicles
                          /\ \E id \in FleetIds : PostVehicle(id)
  \/ workload = "fleet" /\ \E id \in FleetIds : GetFleetVehiclesRoute(id)
  \/ workload = "fleet" /\ \E id \in VehIds : GetVehicleRoute(id)
  \/ workload = "fleet" /\ \E id \in VehIds : DeleteVehicleRoute(id)
  \/ workload = "fleet" /\ \E id \in VehIds, u \in Positions : StoreUpdateVehicle(id, u)
  \/ workload = "fleet" /\ \E id \in VehIds, l \in BOOLEAN : StoreUpdateVehicleLiveStatus(id, l)

SpecStore == Init /\ [][StoreNext]_vars

\* The vehicles of the store on their own: creations, as many as there are
\* ids, and deletions.
PaletteNext ==
  \/ Tick
  \/ workload = "fleet" /\ PostFleet
  \/ workload = "fleet" /\ \E id \in FleetIds : PostVehicle(id)
  \/ workload = "fleet" /\ \E id \in Range(VehIdSeq) : DeleteVehicleRoute(id)

SpecPalette == Init /\ [][PaletteNext]_vars

\* ------------------------------------------------- the viewer (client side)
\* useLocationViewer in a "solo" run, useFleetViewer in a "fleet" run, with the
\* WebSocket objects, timeouts and intervals it creates in the browser. A
\* socket is numbered in the order of `new WebSocket`; an interval is named by
\* the socket whose onopen set it, a timeout by the handler that set it.
MaxSockets == 2

\* the hook's argument: locationId / fleetId
ViewerKey == IF workload = "solo" THEN "l1" ELSE "f1"

\* JSON.stringify({type: "subscribe", locationId}) / ({type: "subscribeFleet", fleetId})
SubscribeMessage(c) ==
  [conn |-> c, type |-> IF workload = "solo" THEN "subscribe" ELSE "subscribeFleet",
   key |-> ViewerKey]

NoTimeout == <<>>

\* wsRef.current?.readyState
RefReadyState(x) ==
  IF x.viewer.wsRef = 0 THEN "NONE" ELSE x.browser.sockets[x.viewer.wsRef].readyState

\* x is the pair [viewer, browser] a callback works on
clearHeartbeat(x) ==
  [viewer |-> [x.viewer EXCEPT !.heartbeatRef = 0],
   browser |-> [x.browser EXCEPT !.intervals = @ \ {x.viewer.heartbeatRef}]]

clearReconnectTimeout(x) ==
  [viewer |-> [x.viewer EXCEPT !.reconnectTimeoutRef = NoTimeout],
   browser |-> [x.browser EXCEPT !.timeouts = @ \ {x.viewer.reconnectTimeoutRef}]]

\* faulty variant: no reconnect is scheduled
scheduleReconnectNever(x, t) == x

\* reconnectTimeoutRef.current = setTimeout(() => connect(), RECONNECT_DELAY)
scheduleReconnect(x, t) ==
  [viewer |-> [x.viewer EXCEPT !.reconnectTimeoutRef = t],
   browser |-> [x.browser EXCEPT !.timeouts = @ \cup {t}]]

\* connect(): wsRef.current.close() is reached only for a socket that is
\* CLOSING or CLOSED, whose state it leaves as it is
connect(x) ==
  IF RefReadyState(x) \in {"OPEN", "CONNECTING"} THEN x
  ELSE LET y == clearHeartbeat(clearReconnectTimeout(x))
       IN [viewer |-> [y.viewer EXCEPT !.wsRef = Len(x.browser.sockets) + 1],
           browser |-> [y.browser EXCEPT !.sockets =
                          Append(@, [readyState |-> "CONNECTING", server |-> 0])]]

\* connect() would create a socket, and the run has one left
Creates(x) == RefReadyState(x) \notin {"OPEN", "CONNECTING"}
CanConnect(x) == Creates(x) => Len(x.browser.sockets) < MaxSockets

Client == [viewer |-> viewer, browser |-> browser]

\* a callback of the viewer commutes with the server's microtasks, so it is
\* taken when none is pending
ClientStep(op, x) ==
  /\ Idle
  /\ viewer' = x.viewer
  /\ browser' = x.browser
  /\ last' = [op |-> op, conn |-> 0, key |-> ViewerKey, res |-> {}, data |-> <<>>]
  /\ sent' = <<>>
  /\ UNCHANGED <<storeVars, conn, registryVars, mq, nmsgs, workload, wire, sharerVars>>

\* the effect "Initial connection": shouldBeViewing.current = true; connect()
ViewerMount ==
  /\ ~viewer.mounted
  \* the hook is mounted once in a run
  /\ browser.sockets = <<>>
  /\ LET x == [Client EXCEPT !.viewer.mounted = TRUE, !.viewer.shouldBeViewing = TRUE]
     IN /\ CanConnect(x)
        /\ ClientStep("viewer.mount", connect(x))

\* its cleanup: shouldBeViewing.current = false (useLocationViewer only); clear
\* the timers; close the socket if it is OPEN or CONNECTING
ViewerUnmount ==
  /\ viewer.mounted
  /\ LET x == [Client EXCEPT !.viewer.mounted = FALSE,
                             !.viewer.shouldBeViewing = (workload # "solo")]
         y == clearHeartbeat(clearReconnectTimeout(x))
         z == IF RefReadyState(y) \in {"OPEN", "CONNECTING"}
              THEN [y EXCEPT !.browser.sockets[y.viewer.wsRef].readyState = "CLOSING"]
              ELSE y
     IN ClientStep("viewer.unmount", z)

\* the handshake of socket i completes: the server accepts the connection and
\* ws.onopen runs: send the subscribe message, start the heartbeat interval
SocketOpen(i) ==
  /\ i \in 1..Len(browser.sockets)
  /\ browser.sockets[i].readyState = "CONNECTING"
  /\ OnConnection
  /\ browser' = [browser EXCEPT !.sockets[i] = [readyState |-> "OPEN",
                                                server |-> Len(conn) + 1],
                                !.intervals = @ \cup {i}]
  /\ viewer' = [viewer EXCEPT !.heartbeatRef = i]
  /\ wire' = Append(wire, SubscribeMessage(Len(conn) + 1))
  /\ UNCHANGED sharerVars

\* the close event of socket i, ws.onclose: clearHeartbeat(); schedule a
\* reconnect (useLocationViewer: if shouldBeViewing.current)
SocketClose(i) ==
  /\ i \in 1..Len(browser.sockets)
  /\ browser.sockets[i].readyState # "CLOSED"
  /\ LET x == clearHeartbeat([Client EXCEPT !.browser.sockets[i].readyState = "CLOSED"])
     IN ClientStep("viewer.close",
                   IF workload = "fleet" \/ viewer.shouldBeViewing
                   THEN scheduleReconnect(x, <<"close", i>>) ELSE x)

\* a reconnect timeout fires: connect()
ReconnectFires(t) ==
  /\ t \in browser.timeouts
  /\ LET x == [Client EXCEPT !.browser.timeouts = @ \ {t}]
     IN /\ CanConnect(x)
        /\ ClientStep("viewer.reconnect", connect(x))

\* faulty variant: the tick leaves the reconnect to the close event
HeartbeatTickWaits(i) ==
  /\ i \in browser.intervals
  /\ browser.sockets[i].readyState # "OPEN"
  /\ ClientStep("viewer.heartbeat", Client)

\* the heartbeat interval of socket i ticks: if (ws.readyState !== OPEN)
\* { clearHeartbeat(); schedule a reconnect }. The timeout of an earlier tick
\* (2 s) has fired before the next tick (15 s).
HeartbeatTick(i) ==
  /\ i \in browser.intervals
  /\ <<"heartbeat", i>> \notin browser.timeouts
  /\ IF browser.sockets[i].readyState # "OPEN"
     THEN ClientStep("viewer.heartbeat",
                     scheduleReconnect(clearHeartbeat(Client), <<"heartbeat", i>>))
     ELSE UNCHANGED vars

\* the server receives the viewer's message
ViewerSubscribeArrives ==
  /\ wire # <<>>
  /\ IF workload = "solo"
     THEN OnSubscribe(Head(wire).conn, Head(wire).key)
     ELSE OnSubscribeFleet(Head(wire).conn, Head(wire).key)
  /\ wire' = Tail(wire)
  /\ UNCHANGED <<viewer, browser, sharerVars>>

\* a message is lost when the server no longer reads the connection, or when
\* the socket closed before the message left the browser
WireLost ==
  /\ wire # <<>>
  /\ \/ ~IsOpen(Head(wire).conn)
     \/ \E i \in 1..Len(browser.sockets) :
          /\ browser.sockets[i].server = Head(wire).conn
          /\ browser.sockets[i].readyState = "CLOSED"
  /\ wire' = Tail(wire)
  /\ last' = [op |-> "lost", conn |-> Head(wire).conn, key |-> NULL, res |-> {}, data |-> <<>>]
  /\ sent' = <<>>
  /\ UNCHANGED <<storeVars, conn, registryVars, mq, nmsgs, workload, viewer, browser,
                 sharerVars>>

\* the data field of the updates the publishing client sends beside the
\* viewer: the coordinates of a position, or none
PublisherPayloads == {WellFormed(p) : p \in Positions} \cup {<<>>}

\* the connections of the other clients
Other(c) == \A i \in 1..Len(browser.sockets) : browser.sockets[i].server # c

ViewerNext ==
  \/ Tick
  \/ ViewerMount
  \/ ViewerUnmount
  \/ \E i \in 1..MaxSockets : SocketOpen(i)
  \/ \E i \in 1..MaxSockets : SocketClose(i)
  \/ \E t \in {"close", "heartbeat"} \X (1..MaxSockets) : ReconnectFires(t)
  \/ \E i \in 1..MaxSockets : HeartbeatTick(i)
  \/ ViewerSubscribeArrives
  \/ WireLost
  \* beside the viewer there is one other client, a publisher that shares
  \* and updates
  \/ (\A c \in DOMAIN conn : ~Other(c)) /\ Connect
  \/ \E c \in 1..MaxConns : ~Other(c) /\ PeerClosing(c)
  \/ \E c \in 1..MaxConns : ~Other(c) /\ Close(c)
  \/ workload = "solo" /\ \E ins \in LiveInserts : PostLocation(ins)
  \/ workload = "solo" /\ \E id \in LocKeys : DeleteLocationRoute(id)
  \/ workload = "solo" /\ \E c \in 1..MaxConns, id \in LocKeys : Other(c) /\ RecvShare(c, id)
  \/ workload = "solo" /\ \E c \in 1..MaxConns, d \in PublisherPayloads :
                            Other(c) /\ RecvUpdate(c, d)
  \/ SubscribeSend
  \/ UpdateSet
  \/ UpdateBroadcast
  \/ workload = "fleet" /\ PostFleet
  \/ workload = "fleet" /\ createdVehs = <<>> /\ \E id \in FleetKeys : PostVehicle(id)
  \/ workload = "fleet" /\ \E id \in VehKeys : DeleteVehicleRoute(id)
  \/ workload = "fleet" /\ \E c \in 1..MaxConns, id \in VehKeys :
                             Other(c) /\ RecvShareVehicle(c, id)
  \/ workload = "fleet" /\ \E c \in 1..MaxConns, d \in PublisherPayloads :
                             Other(c) /\ RecvUpdateVehicle(c, d)
  \/ SubscribeFleetList
  \/ SubscribeFleetSend
  \/ UpdateVehicleBroadcast

SpecViewer == Init /\ [][ViewerNext]_vars

\* The viewer hook with every event of its page and of its sockets, beside a
\* server that has no other client.

\* the server, or the network stack, starts closing socket i
ViewerSocketClosing(i) ==
  /\ i \in 1..Len(browser.sockets)
  /\ browser.sockets[i].readyState = "OPEN"
  /\ ClientStep("viewer.closing", [Client EXCEPT !.browser.sockets[i].readyState = "CLOSING"])

\* handleVisibilityChange with document.visibilityState === 'visible':
\* connect() unless the socket is OPEN or CONNECTING, then refresh(), which
\* starts its fetch
ViewerVisible ==
  /\ viewer.mounted
  /\ ~browser.fetching
  /\ CanConnect(Client)
  /\ ClientStep("viewer.visible", [connect(Client) EXCEPT !.browser.fetching = TRUE])

\* the fetch of refresh() settles, with the record or with an error, and
\* refresh() resumes: connect() unless the socket is OPEN or CONNECTING
RefreshResumes ==
  /\ browser.fetching
  /\ LET x == [Client EXCEPT !.browser.fetching = FALSE]
     IN /\ CanConnect(x)
        /\ ClientStep("viewer.refresh", connect(x))

\* the close event of a socket that was open or that the hook closed: the
\* server accepts connections
ViewerSocketLost(i) ==
  /\ i \in 1..Len(browser.sockets)
  /\ browser.sockets[i].readyState # "CONNECTING"
  /\ SocketClose(i)

ViewerHookNext ==
  \/ ViewerMount
  \/ ViewerUnmount
  \/ ViewerVisible
  \/ RefreshResumes
  \/ \E i \in 1..MaxSockets : SocketOpen(i)
  \/ \E i \in 1..MaxSockets : ViewerSocketClosing(i)
  \/ \E i \in 1..MaxSockets : SocketClose(i)
  \/ \E t \in {"close", "heartbeat"} \X (1..MaxSockets) : ReconnectFires(t)
  \/ \E i \in 1..MaxSockets : HeartbeatTick(i)
  \/ ViewerSubscribeArrives
  \/ WireLost
  \/ SubscribeSend
  \/ SubscribeFleetList
  \/ SubscribeFleetSend

SpecViewerHook == Init /\ [][ViewerHookNext]_vars

ViewerAcceptedNext ==
  \/ ViewerMount
  \/ ViewerUnmount
  \/ ViewerVisible
  \/ RefreshResumes
  \/ \E i \in 1..MaxSockets : SocketOpen(i)
  \/ \E i \in 1..MaxSockets : ViewerSocketClosing(i)
  \/ \E i \in 1..MaxSockets : ViewerSocketLost(i)
  \/ \E t \in {"close", "heartbeat"} \X (1..MaxSockets) : ReconnectFires(t)
  \/ \E i \in 1..MaxSockets : HeartbeatTick(i)
  \/ ViewerSubscribeArrives
  \/ WireLost
  \/ SubscribeSend
  \/ SubscribeFleetList
  \/ SubscribeFleetSend

\* a pending timeout fires (setTimeout with RECONNECT_DELAY), the server
\* completes the handshake of a connecting socket, and the server's event
\* loop runs its pending microtasks
ViewerFairness ==
  /\ \A t \in {"close", "heartbeat"} \X (1..MaxSockets) : WF_vars(ReconnectFires(t))
  /\ \A i \in 1..MaxSockets : WF_vars(SocketOpen(i))
  /\ WF_vars(SubscribeSend) /\ WF_vars(SubscribeFleetList) /\ WF_vars(SubscribeFleetSend)

SpecViewerHookFair == Init /\ [][ViewerAcceptedNext]_vars /\ ViewerFairness

\* ---------------------------------------------- the publisher (client side)
\* useLocationSharer in a "solo" run, useVehicleSharer in a "fleet" run, with
\* what it creates on the device: WebSocket objects (numbered in the order of
\* `new WebSocket`, each with the messages sent on it), reconnect timeouts
\* (named by the handler that set them), heartbeat intervals, position watches
\* and single-shot position reads (named by the socket whose callback they
\* were created for).
MaxSharerSockets == 2
\* the number of messages a run sends on one socket before any "stop"
MaxOut == 3

\* the hook's argument: locationId / vehicleId
SharerKey == IF workload = "solo" THEN "l1" ELSE "v1"

ShareMessage ==
  [type |-> IF workload = "solo" THEN "share" ELSE "shareVehicle", via |-> SharerKey]
\* an update carries lastLocationRef.current ("cache") or the position a
\* callback of the location provider was just given ("read", "watch")
UpdateMessage(via) ==
  [type |-> IF workload = "solo" THEN "update" ELSE "updateVehicle", via |-> via]
StopMessage ==
  [type |-> IF workload = "solo" THEN "stop" ELSE "stopVehicle", via |-> SharerKey]

\* y is the triple [sharer, device, lock] a callback works on
Publisher == [sharer |-> sharer, device |-> device, lock |-> lock]

\* wsRef.current?.readyState
SharerReadyState(y) ==
  IF y.sharer.wsRef = 0 THEN "NONE" ELSE y.device.sockets[y.sharer.wsRef].readyState

\* ws.send(message) on socket i
Send(y, i, message) == [y EXCEPT !.device.sockets[i].out = Append(@, message)]

\* ws.close(): the closing handshake starts unless the socket is CLOSING or CLOSED
CloseSocket(y, i) ==
  IF y.device.sockets[i].readyState \in {"CONNECTING", "OPEN"}
  THEN [y EXCEPT !.device.sockets[i].readyState = "CLOSING"]
  ELSE y

clearSharerHeartbeat(y) ==
  [y EXCEPT !.sharer.heartbeatRef = 0,
            !.device.intervals = @ \ {y.sharer.heartbeatRef}]

clearSharerReconnectTimeout(y) ==
  [y EXCEPT !.sharer.reconnectTimeoutRef = NoTimeout,
            !.device.timeouts = @ \ {y.sharer.reconnectTimeoutRef}]

\* if (watchIdRef.current !== null) navigator.geolocation.clearWatch(watchIdRef.current)
clearWatch(y) == [y EXCEPT !.device.watches = @ \ {y.sharer.watchIdRef}]

\* faulty variant: no reconnect is scheduled
scheduleNoReconnect(y, t) == y

\* reconnectTimeoutRef.current = setTimeout(() => connectAndShare(), RECONNECT_DELAY)
scheduleSharerReconnect(y, t) ==
  [y EXCEPT !.sharer.reconnectTimeoutRef = t,
            !.device.timeouts = @ \cup {t}]

\* faulty variant: the cached position is sent whenever there is one
sendLocationUpdateCached(y, i, forceNew) ==
  IF y.sharer.lastLocationRef /\ y.device.sockets[i].readyState = "OPEN"
  THEN Send(y, i, UpdateMessage("cache"))
  ELSE [y EXCEPT !.device.reads = @ \cup {i}]

\* sendLocationUpdate(ws, forceNew): send the cached position, or start a
\* single-shot read whose callback sends on ws
sendLocationUpdate(y, i, forceNew) ==
  IF ~forceNew /\ y.sharer.lastLocationRef /\ y.device.sockets[i].readyState = "OPEN"
  THEN Send(y, i, UpdateMessage("cache"))
  ELSE [y EXCEPT !.device.reads = @ \cup {i}]

NewSocket == [readyState |-> "CONNECTING", out |-> <<>>]

\* requestWakeLock() up to its await: navigator.wakeLock.request('screen')
requestWakeLock(y) ==
  IF y.lock.supported
  THEN [y EXCEPT !.lock.requests = @ + 1, !.lock.asked = @ + 1]
  ELSE y

\* handleWakeLockRelease, the 'release' listener, up to its await; the
\* document is visible
handleWakeLockRelease(y) ==
  IF y.sharer.shouldBeSharing THEN requestWakeLock(y) ELSE y

\* sentinel s stops holding its lock, by release() or by the platform, and
\* the 'release' event is fired at it
Released(y, s) ==
  LET z == [y EXCEPT !.lock.held = @ \ {s}]
  IN IF s \in y.lock.listeners THEN handleWakeLockRelease(z) ELSE z

\* releaseWakeLock()
releaseWakeLock(y) ==
  IF y.sharer.wakeLockRef # 0
  THEN [Released(y, y.sharer.wakeLockRef) EXCEPT !.sharer.wakeLockRef = 0]
  ELSE y

\* faulty variant: no look at the state of the current socket
connectAndShareUnguarded(y) ==
  LET z == requestWakeLock(clearSharerHeartbeat(clearSharerReconnectTimeout(y)))
  IN [z EXCEPT !.sharer.wsRef = Len(y.device.sockets) + 1,
               !.device.sockets = Append(@, NewSocket)]

\* connectAndShare() up to `new WebSocket`; the handlers it installs are the
\* actions below
connectAndShare(y) ==
  IF SharerReadyState(y) \in {"OPEN", "CONNECTING"} THEN y
  ELSE LET z == clearSharerHeartbeat(clearSharerReconnectTimeout(y))
           w == IF z.sharer.wsRef # 0 THEN CloseSocket(z, z.sharer.wsRef) ELSE z
       IN [requestWakeLock(w) EXCEPT !.sharer.wsRef = Len(y.device.sockets) + 1,
                                     !.device.sockets = Append(@, NewSocket)]

\* the call creates no socket, or the run has one left
SocketLeft(y) ==
  SharerReadyState(y) \notin {"OPEN", "CONNECTING"}
    => Len(y.device.sockets) < MaxSharerSockets

\* socket i can take one more message
RoomOn(i) == Len(device.sockets[i].out) < MaxOut

SharerStep(op, i, y) ==
  /\ sharer' = y.sharer
  /\ device' = y.device
  /\ lock' = y.lock
  /\ last' = [op |-> op, conn |-> i, key |-> SharerKey, res |-> {}, data |-> <<>>]
  /\ UNCHANGED <<storeVars, conn, registryVars, mq, sent, nmsgs, workload, viewerVars>>

\* startSharing(): shouldBeSharing.current = true; connectAndShare()
startSharing ==
  /\ sharer.mounted
  /\ LET y == [Publisher EXCEPT !.sharer.shouldBeSharing = TRUE]
     IN SocketLeft(y) /\ SharerStep("startSharing", 0, connectAndShare(y))

\* stopSharing()
stopSharing ==
  /\ sharer.mounted
  /\ LET a == [Publisher EXCEPT !.sharer.shouldBeSharing = FALSE]
         b == releaseWakeLock(clearSharerHeartbeat(clearSharerReconnectTimeout(a)))
         c == IF b.sharer.watchIdRef # 0
              THEN [clearWatch(b) EXCEPT !.sharer.watchIdRef = 0] ELSE b
         d == IF SharerReadyState(c) = "OPEN" THEN Send(c, c.sharer.wsRef, StopMessage)
              ELSE c
         e == IF d.sharer.wsRef # 0
              THEN [CloseSocket(d, d.sharer.wsRef) EXCEPT !.sharer.wsRef = 0] ELSE d
     IN SharerStep("stopSharing", 0, [e EXCEPT !.sharer.isSharing = FALSE])

\* the effect cleanups at unmount: the visibilitychange listener is removed,
\* the 'release' listener is removed from the sentinel the ref holds, then
\* "Cleanup on unmount"
SharerUnmount ==
  /\ sharer.mounted
  /\ LET a == [Publisher EXCEPT !.sharer.mounted = FALSE,
                                !.lock.listeners = @ \ {sharer.wakeLockRef}]
         b == releaseWakeLock(clearSharerHeartbeat(clearSharerReconnectTimeout(a)))
         c == IF b.sharer.watchIdRef # 0 THEN clearWatch(b) ELSE b
         d == IF c.sharer.wsRef # 0 THEN CloseSocket(c, c.sharer.wsRef) ELSE c
     IN SharerStep("unmount", 0, d)

\* ws.onopen of socket i
SharerSocketOpen(i) ==
  /\ i \in 1..Len(device.sockets)
  /\ device.sockets[i].readyState = "CONNECTING"
  /\ LET a == Send([Publisher EXCEPT !.device.sockets[i].readyState = "OPEN"],
                   i, ShareMessage)
         b == sendLocationUpdate(a, i, TRUE)
         c == IF b.sharer.watchIdRef # 0 THEN clearWatch(b) ELSE b
         d == [c EXCEPT !.sharer.watchIdRef = i,
                        !.device.watches = @ \cup {i},
                        !.sharer.heartbeatRef = i,
                        !.device.intervals = @ \cup {i},
                        !.sharer.isSharing = TRUE]
     IN SharerStep("open", i, d)

\* the peer, or the network stack, starts closing socket i
SharerSocketClosing(i) ==
  /\ i \in 1..Len(device.sockets)
  /\ device.sockets[i].readyState = "OPEN"
  /\ SharerStep("closing", i, [Publisher EXCEPT !.device.sockets[i].readyState = "CLOSING"])

\* ws.onclose of socket i
onclose(i) ==
  LET a == clearSharerHeartbeat([Publisher EXCEPT !.device.sockets[i].readyState = "CLOSED"])
      b == IF a.sharer.watchIdRef # 0
           THEN [clearWatch(a) EXCEPT !.sharer.watchIdRef = 0] ELSE a
  IN IF b.sharer.shouldBeSharing THEN scheduleSharerReconnect(b, <<"close", i>>)
     ELSE [releaseWakeLock(b) EXCEPT !.sharer.isSharing = FALSE]

\* the close event of socket i: the connection failed, was lost or was closed
SharerSocketClose(i) ==
  /\ i \in 1..Len(device.sockets)
  /\ device.sockets[i].readyState # "CLOSED"
  /\ SharerStep("close", i, onclose(i))

\* a reconnect timeout fires: connectAndShare()
SharerReconnectFires(t) ==
  /\ t \in device.timeouts
  /\ LET y == [Publisher EXCEPT !.device.timeouts = @ \ {t}]
     IN SocketLeft(y) /\ SharerStep("reconnect", t[2], connectAndShare(y))

\* faulty variant: the tick asks the location provider for a new position
SharerHeartbeatTickReads(i) ==
  /\ i \in device.intervals
  /\ IF device.sockets[i].readyState = "OPEN"
     THEN /\ sharer.lastLocationRef
          /\ RoomOn(i)
          /\ SharerStep("heartbeat", i, sendLocationUpdate(Publisher, i, TRUE))
     ELSE /\ sharer.shouldBeSharing
          /\ SharerStep("heartbeat", i,
                        scheduleSharerReconnect(clearSharerHeartbeat(Publisher),
                                                <<"heartbeat", i>>))

\* the heartbeat interval set by onopen of socket i ticks
SharerHeartbeatTick(i) ==
  /\ i \in device.intervals
  /\ IF device.sockets[i].readyState = "OPEN"
     THEN /\ sharer.lastLocationRef
          /\ RoomOn(i)
          /\ SharerStep("heartbeat", i, Send(Publisher, i, UpdateMessage("cache")))
     ELSE /\ sharer.shouldBeSharing
          /\ SharerStep("heartbeat", i,
                        scheduleSharerReconnect(clearSharerHeartbeat(Publisher),
                                                <<"heartbeat", i>>))

\* handleVisibilityChange with document.visibilityState === 'visible'
VisibilityChange ==
  /\ sharer.mounted
  /\ sharer.shouldBeSharing
  /\ IF SharerReadyState(Publisher) \notin {"OPEN", "CONNECTING"}
     THEN SocketLeft(Publisher) /\ SharerStep("visible", 0, connectAndShare(Publisher))
     ELSE /\ SharerReadyState(Publisher) = "OPEN"
          /\ SharerStep("visible", 0, sendLocationUpdate(Publisher, sharer.wsRef, TRUE))

\* the callback of a single-shot read started for socket i: the position
\* arrives (ok) or the read fails
PositionRead(i, ok) ==
  /\ i \in device.reads
  /\ (ok /\ device.sockets[i].readyState = "OPEN") => RoomOn(i)
  /\ LET a == [Publisher EXCEPT !.device.reads = @ \ {i}]
         b == [a EXCEPT !.sharer.lastLocationRef = TRUE]
     IN SharerStep("read", i,
                   IF ~ok THEN a
                   ELSE IF device.sockets[i].readyState = "OPEN"
                        THEN Send(b, i, UpdateMessage("read")) ELSE b)

\* the callback of the watch started by onopen of socket i
WatchPosition(i) ==
  /\ i \in device.watches
  /\ device.sockets[i].readyState = "OPEN" => RoomOn(i)
  /\ LET b == [Publisher EXCEPT !.sharer.lastLocationRef = TRUE]
     IN SharerStep("watch", i,
                   IF device.sockets[i].readyState = "OPEN"
                   THEN Send(b, i, UpdateMessage("watch")) ELSE b)

SharerNext ==
  \/ startSharing
  \/ stopSharing
  \/ SharerUnmount
  \/ VisibilityChange
  \/ \E i \in 1..MaxSharerSockets : SharerSocketOpen(i)
  \/ \E i \in 1..MaxSharerSockets : SharerSocketClosing(i)
  \/ \E i \in 1..MaxSharerSockets : SharerSocketClose(i)
  \/ \E t \in {"close", "heartbeat"} \X (1..MaxSharerSockets) : SharerReconnectFires(t)
  \/ \E i \in 1..MaxSharerSockets : SharerHeartbeatTick(i)
  \/ \E i \in 1..MaxSharerSockets, ok \in BOOLEAN : PositionRead(i, ok)
  \/ \E i \in 1..MaxSharerSockets : WatchPosition(i)

SpecSharer == Init /\ [][SharerNext]_vars

\* The publisher with a server that accepts connections: a socket closes only
\* after it was open or after the publisher's own close().
SharerSocketLost(i) ==
  /\ i \in 1..Len(device.sockets)
  /\ device.sockets[i].readyState # "CONNECTING"
  /\ SharerSocketClose(i)

SharerAcceptedNext ==
  \/ startSharing
  \/ stopSharing
  \/ SharerUnmount
  \/ VisibilityChange
  \/ \E i \in 1..MaxSharerSockets : SharerSocketOpen(i)
  \/ \E i \in 1..MaxSharerSockets : SharerSocketClosing(i)
  \/ \E i \in 1..MaxSharerSockets : SharerSocketLost(i)
  \/ \E t \in {"close", "heartbeat"} \X (1..MaxSharerSockets) : SharerReconnectFires(t)
  \/ \E i \in 1..MaxSharerSockets : SharerHeartbeatTick(i)
  \/ \E i \in 1..MaxSharerSockets, ok \in BOOLEAN : PositionRead(i, ok)
  \/ \E i \in 1..MaxSharerSockets : WatchPosition(i)

\* a pending timeout fires (setTimeout with RECONNECT_DELAY), and the server
\* completes the handshake of a connecting socket
SharerFairness ==
  /\ \A t \in {"close", "heartbeat"} \X (1..MaxSharerSockets) :
       WF_vars(SharerReconnectFires(t))
  /\ \A i \in 1..MaxSharerSockets : WF_vars(SharerSocketOpen(i))

SpecSharerFair == Init /\ [][SharerAcceptedNext]_vars /\ SharerFairness

\* The publisher in a browser with the Screen Wake Lock API; the document
\* stays visible.
MaxLocks == 3

\* the platform grants a pending request: the promise of
\* navigator.wakeLock.request resolves with a new sentinel and requestWakeLock
\* resumes: wakeLockRef.current = sentinel
WakeLockGranted ==
  /\ lock.requests > 0
  /\ LET s == lock.granted + 1
     IN SharerStep("lock.granted", s,
                   [Publisher EXCEPT !.lock.requests = @ - 1,
                                     !.lock.granted = s,
                                     !.lock.held = @ \cup {s},
                                     !.sharer.wakeLockRef = s])

\* the platform rejects a pending request: the catch branch
WakeLockDenied ==
  /\ lock.requests > 0
  /\ SharerStep("lock.denied", 0, [Publisher EXCEPT !.lock.requests = @ - 1])

\* the platform releases the lock of sentinel s
WakeLockRevoked(s) ==
  /\ s \in lock.held
  /\ SharerStep("lock.revoked", s, Released(Publisher, s))

\* React runs the effect with dependency isSharing after a render in which
\* isSharing changed: its cleanup, then its body, both on the sentinel the
\* ref holds at that time
WakeLockEffect ==
  /\ sharer.mounted
  /\ sharer.isSharing # lock.effectFor
  /\ SharerStep("lock.effect", 0,
                [Publisher EXCEPT !.lock.effectFor = sharer.isSharing,
                                  !.lock.listeners =
                                     IF sharer.wakeLockRef # 0
                                     THEN @ \cup {sharer.wakeLockRef} ELSE @])

\* the run makes at most MaxLocks requests
LocksLeft == lock'.asked <= MaxLocks

WakeLockNext ==
  \/ startSharing /\ LocksLeft
  \/ stopSharing
  \/ SharerUnmount
  \/ \E i \in 1..MaxSharerSockets : SharerSocketOpen(i)
  \/ \E i \in 1..MaxSharerSockets : SharerSocketClosing(i)
  \/ \E i \in 1..MaxSharerSockets : SharerSocketClose(i)
  \/ \E t \in {"close", "heartbeat"} \X (1..MaxSharerSockets) :
       SharerReconnectFires(t) /\ LocksLeft
  \/ \E i \in 1..MaxSharerSockets : SharerHeartbeatTick(i)
  \/ WakeLockGranted
  \/ WakeLockDenied
  \/ \E s \in 1..MaxLocks : WakeLockRevoked(s) /\ LocksLeft
  \/ WakeLockEffect

SpecWakeLock == InitWakeLock /\ [][WakeLockNext]_vars

\* ------------------------------------------------------------ properties
\* the k-th created location, fleet: has its expiry timestamp passed
LocationExpired(id) ==
  /\ id \in Range(LocIdSeq)
  /\ IndexOf(LocIdSeq, id) <= Len(createdLocs)
  /\ createdLocs[IndexOf(LocIdSeq, id)] < now

FleetExpired(id) ==
  /\ id \in Range(FleetIdSeq)
  /\ IndexOf(FleetIdSeq, id) <= Len(createdFleets)
  /\ createdFleets[IndexOf(FleetIdSeq, id)] < now

\* the vehicles created under fleet id, whether or not they are still stored
VehiclesCreatedIn(id) ==
  {VehIdSeq[k] : k \in {j \in 1..Len(createdVehs) : createdVehs[j] = id}}

GetAfterExpiryNotFound ==
  /\ (last.op = "getLocation" /\ LocationExpired(last.key))
       => last.res = {} /\ last.key \notin DOMAIN locations
  /\ (last.op = "getFleet" /\ FleetExpired(last.key))
       => /\ last.res = {}
          /\ last.key \notin DOMAIN fleets
          /\ \A v \in DOMAIN vehicles : vehicles[v].fleetId # last.key

SecondGetChangesNothing ==
  /\ (last.op = "getLocation" /\ LocationExpired(last.key)
        /\ last'.op = "getLocation" /\ last'.key = last.key)
       => UNCHANGED storeVars /\ last'.res = {}
  /\ (last.op = "getFleet" /\ FleetExpired(last.key)
        /\ last'.op = "getFleet" /\ last'.key = last.key)
       => UNCHANGED storeVars /\ last'.res = {}

\* C1: a getLocation / getFleet made strictly after the record's expiry
\* timestamp returns not-found and leaves the record (and, for a fleet, its
\* vehicles) out of the store; a get that directly follows such a get on the
\* same key returns not-found again and leaves the store as it was.
C1_GetAfterExpiry == []GetAfterExpiryNotFound /\ [][SecondGetChangesNothing]_vars

\* an expired fleet that had a vehicle has just been read: it and its vehicle
\* are purged
C1_Witness ==
  /\ last.op = "getFleet"
  /\ FleetExpired(last.key)
  /\ VehiclesCreatedIn(last.key) # {}
  /\ last.res = {}

\* C2: once a fleet has expired, getVehicle on each vehicle created under it
\* returns not-found and getVehiclesByFleet on the fleet returns the empty
\* list, whatever has been called since the expiry.
C2_VehiclesOfExpiredFleetUnreachable ==
  \A f \in FleetIds :
    FleetExpired(f) =>
      /\ \A v \in VehiclesCreatedIn(f) : getVehicle(vehicles, v) = {}
      /\ getVehiclesByFleet(fleets, vehicles, f, now).res = <<>>

\* the entries of a Map<string, WebSocket> for one key
EntriesOf(entries, key) == {e \in entries : e[1] = key}

\* C3: for each location id and each vehicle id at most one connection is
\* registered as its publisher, and after a share / shareVehicle for a key the
\* one registration of the key is the connection that sent it.
C3_OnePublisherPerKey ==
  /\ \A e1, e2 \in sharerConnections : e1[1] = e2[1] => e1 = e2
  /\ \A e1, e2 \in vehicleSharerConnections : e1[1] = e2[1] => e1 = e2
  /\ last.op = "share"
       => EntriesOf(sharerConnections, last.key) = {<<last.key, last.conn>>}
  /\ last.op = "shareVehicle"
       => EntriesOf(vehicleSharerConnections, last.key) = {<<last.key, last.conn>>}

\* a second connection has just sent share for a key that another open
\* connection is sharing
C3_Witness ==
  /\ last.op = "share"
  /\ \E c \in DOMAIN conn :
       /\ c # last.conn
       /\ IsOpen(c)
       /\ conn[c].sharingLocationId = last.key

\* C4: an update / updateVehicle takes effect (the record is written, the
\* new state is broadcast) only when the sending connection is the one
\* registered as publisher of the key.
C4_OnlyRegisteredPublisherWrites ==
  /\ (last.op = "update.set" /\ <<last.key, last.conn>> \notin sharerConnections)
       => last.res = {}
  /\ (last.op = "update.broadcast" /\ <<last.key, last.conn>> \notin sharerConnections)
       => sent = <<>>
  /\ (last.op = "updateVehicle" /\ last.key \in DOMAIN vehicles
        /\ <<last.key, last.conn>> \notin vehicleSharerConnections)
       => last.res = {}
  /\ (last.op = "updateVehicle.broadcast"
        /\ <<last.key, last.conn>> \notin vehicleSharerConnections)
       => sent = <<>>

\* the vehicles created so far, stored or not
CreatedVehicles == {VehIdSeq[k] : k \in 1..Len(createdVehs)}

\* the fleet a vehicle was created under
FleetOf(v) == createdVehs[IndexOf(VehIdSeq, v)]

\* the messages of the last step that went to connection s
SentTo(s) == {i \in 1..Len(sent) : sent[i].to = s}

\* each open connection of `subscribers` was sent one message, of the type,
\* and nothing was sent to any other connection
NotifiedOnce(subscribers, type) ==
  /\ \A i \in 1..Len(sent) : sent[i].to \in subscribers /\ sent[i].type = type
  /\ \A s \in subscribers : Cardinality(SentTo(s)) = IF IsOpen(s) THEN 1 ELSE 0

\* a stopped notification went to each open subscriber of the location
StoppedSent(id) ==
  \A s \in Subscribers(locationSubscribers, id) :
    IsOpen(s) => \E i \in SentTo(s) : sent[i].type = "stopped"

\* a vehicleStopped notification naming v went to each open subscriber of f
VehicleStoppedSent(v, f) ==
  \A s \in Subscribers(fleetSubscribers, f) :
    IsOpen(s) => \E i \in SentTo(s) :
                   sent[i].type = "vehicleStopped" /\ sent[i].data = v

C6_LiveFlagOffAfterClose ==
  last.op = "close" =>
    LET me == conn[last.conn]
    IN /\ me.sharingLocationId \in DOMAIN locations
            => ~locations[me.sharingLocationId].isLive
       /\ me.sharingVehicleId \in DOMAIN vehicles
            => ~vehicles[me.sharingVehicleId].isLive

\* C7: when an update is fanned out, each subscriber of the channel that is
\* open is sent the update once and each that is not open is sent nothing,
\* whatever the order of the subscribers.
C7_UpdateReachesOpenSubscribersOnce ==
  /\ last.op = "update.broadcast"
       => NotifiedOnce(Subscribers(locationSubscribers, last.key), "location")
  /\ last.op = "updateVehicle.broadcast"
       => NotifiedOnce(Subscribers(fleetSubscribers, FleetOf(last.key)), "vehicleUpdate")

\* an update has been fanned out to a location with an open subscriber and
\* one that is not open
C7_Witness ==
  /\ last.op = "update.broadcast"
  /\ \E s, t \in Subscribers(locationSubscribers, last.key) : IsOpen(s) /\ ~IsOpen(t)
  /\ sent # <<>>

\* what the store holds for fleet f: its vehicles, none when f is unknown or
\* expired
CurrentVehicleList(f) ==
  IF f \in DOMAIN fleets /\ ~(fleets[f].expiresAt < now)
  THEN vehiclesOfFleet(vehicles, f) ELSE <<>>

Ids(list) == [i \in 1..Len(list) |-> list[i].id]

\* the list is read from the store, and a vehicles message is the answer of
\* a subscribeFleet, the only message of its step, listing the stored vehicles
FleetSnapshotRead ==
  /\ last.op = "subscribeFleet.list"
       => mq[Len(mq)] = Cont(last.conn, "subscribeFleet.send", last.key,
                             CurrentVehicleList(last.key), <<>>)
  /\ \A i \in 1..Len(sent) : sent[i].type = "vehicles" => last.op = "subscribeFleet.send"
  /\ (last.op = "subscribeFleet.send" /\ IsOpen(last.conn))
       => /\ Len(sent) = 1
          /\ sent[1].to = last.conn
          /\ sent[1].type = "vehicles"
          /\ Ids(sent[1].data) = Ids(CurrentVehicleList(last.key))

\* the list that was read is the one sent
FleetSnapshotSent ==
  (last'.op = "subscribeFleet.send" /\ IsOpen(last'.conn))
    => sent' = <<[to |-> last'.conn, type |-> "vehicles", data |-> Head(mq).rec]>>

\* C8: a subscribeFleet of a connection that is still open when its handler
\* completes is answered with one message to that connection, of type
\* vehicles, carrying the list the handler read from the store: the vehicles
\* the store then held for the fleet, none for a fleet that is unknown,
\* expired or empty; no other step sends a vehicles message.
C8_FleetSnapshot == []FleetSnapshotRead /\ [][FleetSnapshotSent]_vars

\* a subscribeFleet for a fleet that has expired, and had a vehicle, has been
\* answered with the empty list
C8_Witness ==
  /\ last.op = "subscribeFleet.send"
  /\ FleetExpired(last.key)
  /\ VehiclesCreatedIn(last.key) # {}
  /\ Len(sent) = 1
  /\ sent[1].data = <<>>

\* the server connection of a socket the viewer opened after its first one,
\* which had been open
Reopened(c) ==
  \E i \in 2..Len(browser.sockets) :
    browser.sockets[i].server = c /\ browser.sockets[1].server # 0

\* on the open of a socket of the viewer its subscribe message is sent on it
ResubscribesOnOpen ==
  (last.op = "connection" /\ ~Other(last.conn))
    => /\ wire # <<>>
       /\ wire[Len(wire)] =
            [conn |-> last.conn, key |-> ViewerKey,
             type |-> IF workload = "solo" THEN "subscribe" ELSE "subscribeFleet"]

\* the unexpired record the store holds for a location id, if any
CurrentLocation(id) ==
  IF id \in DOMAIN locations /\ ~(locations[id].expiresAt < now)
  THEN {locations[id]} ELSE {}

\* a subscribeFleet on a reopened transport is answered with the current list
FleetResubscribeAnswered ==
  (last.op = "subscribeFleet.send" /\ Reopened(last.conn) /\ IsOpen(last.conn))
    => sent = <<[to |-> last.conn, type |-> "vehicles",
                 data |-> CurrentVehicleList(last.key)]>>

\* C9 as stated: the viewer sends its subscribe / subscribeFleet on every
\* transport it opens, and the server answers the one of a reopened transport
\* with a snapshot of the store's current content: the current record of a
\* location that was created, the current vehicle list.
C9_ResubscribeGetsSnapshot ==
  /\ ResubscribesOnOpen
  /\ FleetResubscribeAnswered
  /\ (last.op = "subscribe.send" /\ Reopened(last.conn) /\ IsOpen(last.conn)
        /\ createdLocs # <<>>)
       => /\ Len(sent) = 1
          /\ sent[1].to = last.conn
          /\ sent[1].type = "location"
          /\ {sent[1].data} = CurrentLocation(last.key)

\* C9, amended: as C9, the subscribe being answered with the current location
\* record when the store holds an unexpired record for the id, and with
\* nothing when it holds none.
C9_ResubscribeGetsSnapshotIfStored ==
  /\ ResubscribesOnOpen
  /\ FleetResubscribeAnswered
  /\ (last.op = "subscribe.send" /\ Reopened(last.conn) /\ IsOpen(last.conn))
       => sent = [i \in 1..Cardinality(CurrentLocation(last.key)) |->
                    [to |-> last.conn, type |-> "location",
                     data |-> TheOne(CurrentLocation(last.key))]]

\* the subscribe of a reopened transport has been answered with a record
\* that a publisher moved after it was created
C9_Witness ==
  /\ last.op = "subscribe.send"
  /\ Reopened(last.conn)
  /\ Len(sent) = 1
  /\ sent[1].data.latitude # 0

\* C10: an update / updateVehicle received on a connection that has not sent
\* share / shareVehicle, or has sent stop / stopVehicle since, is dropped: the
\* handler writes no record and sends nothing.
C10_UpdateWithoutShareDropped ==
  /\ (last.op = "update"
        /\ (conn[last.conn].sharingLocationId = NULL \/ conn[last.conn].stopSent))
       => (last.res = {} \/ last.key \notin DOMAIN locations) /\ sent = <<>>
  /\ (last.op = "updateVehicle"
        /\ (conn[last.conn].sharingVehicleId = NULL \/ conn[last.conn].stopVehicleSent))
       => (last.res = {} \/ last.key \notin DOMAIN vehicles) /\ sent = <<>>

\* the payload misses a coordinate or has one that is not a finite number
Malformed(data) ==
  \/ Len(data) # 2
  \/ \E i \in 1..Len(data) : data[i].type # "number" \/ data[i].n = Infinity

UpdateReceived == last'.op \in {"update", "updateVehicle"}

\* the step left the store, the registry and the connections as they were and
\* sent nothing
NoEffect ==
  /\ UNCHANGED <<storeVars, conn, registryVars>>
  /\ sent' = <<>>

\* the step resumes the handler of an update whose payload had a coordinate
\* that is not finite
ResumesNotFinite ==
  /\ mq # <<>>
  /\ Head(mq).pc \in {"update.set", "update.broadcast", "updateVehicle.broadcast"}
  /\ last'.op = Head(mq).pc
  /\ Infinity \in Range(Head(mq).upd)

MalformedDropped ==
  /\ (UpdateReceived /\ Malformed(last'.data)) => NoEffect
  /\ last'.op = "unparseable" => NoEffect /\ mq' = mq
  /\ ResumesNotFinite => NoEffect

\* the connection of the update just received is a publisher
Publishing ==
  \/ last'.op = "update" /\ conn[last'.conn].sharingLocationId # NULL
  \/ last'.op = "updateVehicle" /\ conn[last'.conn].sharingVehicleId # NULL

WellFormedAfterMalformedAccepted ==
  (/\ last.op \in {"update", "updateVehicle", "unparseable"}
   /\ last.op = "unparseable" \/ Malformed(last.data)
   /\ UpdateReceived /\ last'.conn = last.conn /\ ~Malformed(last'.data)
   /\ Publishing)
    => last'.res = {TRUE}

\* C11: an update / updateVehicle whose payload misses a coordinate or has one
\* that is not a finite number, and a frame that is not JSON, are dropped: the
\* store, the registry and the connection (its state and its publisher role)
\* are unchanged, nothing is sent and no continuation is scheduled; a
\* well-formed update that follows on the same connection is accepted.
C11_MalformedUpdateDropped ==
  [][MalformedDropped /\ WellFormedAfterMalformedAccepted]_vars

\* the role variables of connection c that are set
RolesOf(c) ==
  {r \in {"subscribedLocationId", "sharingLocationId",
          "subscribedFleetId", "sharingVehicleId"} : conn[c][r] # NULL}

\* C12: a connection plays one role: at most one of its four role variables
\* (subscribed location, sharing location, subscribed fleet, sharing vehicle)
\* is set, and a role variable that is set is not set to another key.
C12_OneRolePerConnection ==
  /\ [](\A c \in DOMAIN conn : Cardinality(RolesOf(c)) <= 1)
  /\ [][\A c \in DOMAIN conn : \A r \in RolesOf(c) :
          conn'[c][r] \in {conn[c][r], NULL}]_vars

\* the connections the registry refers to
Registered ==
  UNION {locationSubscribers[k] : k \in DOMAIN locationSubscribers}
    \cup UNION {fleetSubscribers[k] : k \in DOMAIN fleetSubscribers}
    \cup {e[2] : e \in sharerConnections \cup vehicleSharerConnections}

\* C13: once the close of a connection has been handled, the connection is in
\* no subscriber set and is the value of no publisher entry.
C13_ClosedConnectionUnregistered ==
  \A c \in DOMAIN conn : conn[c].readyState = "CLOSED" => c \notin Registered

\* the location is absent or past its expiry; the vehicle is absent or its
\* fleet is past its expiry
GoneLocation(id) == id \notin DOMAIN locations \/ IsExpired(locations[id], now)
GoneVehicle(v) == v \notin DOMAIN vehicles \/ FleetExpired(vehicles[v].fleetId)

\* no record of the map was created or modified
RecordsKept(old, new) == \A k \in DOMAIN new : k \in DOMAIN old /\ new[k] = old[k]

UpdateOfGoneIsNoOp ==
  \* the update handler finds no location: no record changes, nothing is sent
  /\ (last'.op = "update" /\ last'.res = {TRUE} /\ GoneLocation(last'.key))
       => /\ RecordsKept(locations, locations')
          /\ sent' = <<>>
          /\ mq'[Len(mq')].rec = {}
  \* and it returns when it resumes
  /\ (last'.op = "update.set" /\ Head(mq).rec = {})
       => NoEffect /\ mq' = Tail(mq)
  \* the updateVehicle handler finds no vehicle it may update
  /\ (last'.op = "updateVehicle" /\ last'.res = {TRUE} /\ GoneVehicle(last'.key))
       => vehicles' = vehicles /\ sent' = <<>> /\ mq' = mq

\* C14: an update of a publisher whose location is absent or past its expiry,
\* and an updateVehicle of a publisher whose vehicle is absent or belongs to a
\* fleet past its expiry, change no record and send nothing, neither at once
\* nor when the handler resumes.
C14_UpdateOfGoneRecordIsNoOp == [][UpdateOfGoneIsNoOp]_vars

\* connection c has sent shareVehicle for v, has sent no stopVehicle since and
\* has not closed
HoldsVehicle(C, c, v) ==
  /\ C[c].readyState # "CLOSED"
  /\ C[c].sharingVehicleId = v
  /\ ~C[c].stopVehicleSent

LiveWhilePublished ==
  \* shareVehicle for a stored vehicle sets its live flag
  /\ (last'.op = "shareVehicle" /\ last'.key \in DOMAIN vehicles')
       => vehicles'[last'.key].isLive
  \* and no step clears it while a connection goes on holding the role
  /\ \A c \in DOMAIN conn : \A v \in DOMAIN vehicles \cap DOMAIN vehicles' :
       (HoldsVehicle(conn, c, v) /\ HoldsVehicle(conn', c, v) /\ vehicles[v].isLive)
         => vehicles'[v].isLive

\* C15: from the shareVehicle of a connection for a stored vehicle until that
\* connection sends stopVehicle or closes, the vehicle's live flag is true,
\* whatever the other connections do.
C15_LiveWhilePublished == [][LiveWhilePublished]_vars

\* the role announcement has been sent on socket i
ShareSent(D, i) ==
  \E k \in 1..Len(D.sockets[i].out) : D.sockets[i].out[k].type = ShareMessage.type

\* a step of the publisher in which it opens no socket and announces no role
NoReconnect ==
  /\ Len(device'.sockets) = Len(device.sockets)
  /\ \A i \in 1..Len(device.sockets) : ShareSent(device', i) => ShareSent(device, i)

\* C16: once stopSharing has been called (shouldBeSharing is false), the
\* publisher opens no new socket and sends no share / shareVehicle message
\* until startSharing is called again, whatever heartbeat ticks, close events
\* and timers were pending at the stop.
C16_StopIsTerminal ==
  [][(~sharer.shouldBeSharing /\ last'.op # "startSharing") => NoReconnect]_vars

\* the sockets of the publisher that are connecting or open
ActiveSockets ==
  {i \in 1..Len(device.sockets) : device.sockets[i].readyState \in {"CONNECTING", "OPEN"}}

\* C18: at every instant at most one socket created by the publisher is
\* connecting or open.
C18_AtMostOneActiveSocket ==
  Cardinality(ActiveSockets) <= 1

\* a second socket has been created and is connecting or open, after the
\* first one was given up
C18_Witness ==
  /\ Len(device.sockets) = 2
  /\ ActiveSockets = {2}
  /\ last.op \in {"reconnect", "visible", "startSharing"}

\* the messages on socket i begin with the role announcement carrying the
\* publisher's key, and it is the only one
AnnouncedFirst(D, i) ==
  LET out == D.sockets[i].out
  IN out # <<>> =>
       /\ out[1] = ShareMessage
       /\ \A k \in 2..Len(out) : out[k].type # ShareMessage.type

\* the open of a socket: the announcement is all that has been sent on it, a
\* single-shot read for it is pending and no cached position has been sent
FreshReadOnOpen ==
  last'.op = "open" =>
    /\ device'.sockets[last'.conn].out = <<ShareMessage>>
    /\ last'.conn \in device'.reads

\* C19: on every open of a socket of the publisher the first message sent on
\* it is share with the location id / shareVehicle with the vehicle id, it
\* precedes every update on that socket, and a single-shot position read is
\* started at once instead of the cached position being sent.
C19_AnnounceThenFreshRead ==
  [][FreshReadOnOpen /\ \A i \in 1..Len(device'.sockets) : AnnouncedFirst(device', i)]_vars

\* the second socket of a run has just opened while a position was cached
C19_Witness ==
  /\ last.op = "open" /\ last.conn = 2
  /\ sharer.lastLocationRef
  /\ device.sockets[2].out = <<ShareMessage>>
  /\ 2 \in device.reads

\* the publisher has exited: stopSharing was the operator's last call, or the
\* component is unmounted
Exited == ~sharer.mounted \/ ~sharer.shouldBeSharing

\* C20: after stopSharing or unmount no heartbeat interval, no reconnect
\* timeout and no position watch of the publisher exists, whatever callbacks
\* were scheduled before the exit.
C20_NothingLeftAfterExit ==
  Exited => device.intervals = {} /\ device.timeouts = {} /\ device.watches = {}

\* the close event of socket i has just been handled while sharing is
\* requested, and the run has a socket left to open
ClosedWhileSharing(i) ==
  /\ last.op = "close" /\ last.conn = i
  /\ sharer.mounted /\ sharer.shouldBeSharing
  /\ Len(device.sockets) < MaxSharerSockets

\* a socket created after socket i has opened and carries the announcement
ReannouncedAfter(i) ==
  \E j \in (i + 1)..Len(device.sockets) : ShareSent(device, j)

\* C17: while sharing is requested, every close of a socket of the publisher
\* is eventually followed by a newer socket on which share / shareVehicle has
\* been sent, unless the operator stops or the component unmounts first;
\* timeouts fire and the server accepts connections.
C17_ReconnectsWhileSharing ==
  \A i \in 1..MaxSharerSockets : ClosedWhileSharing(i) ~> (ReannouncedAfter(i) \/ Exited)

\* the first socket was open and has closed, sharing is still requested and
\* the second socket has just opened with the announcement
C17_Witness ==
  /\ Len(device.sockets) = 2
  /\ device.sockets[1].readyState = "CLOSED"
  /\ device.sockets[1].out # <<>>
  /\ \A k \in 1..Len(device.sockets[1].out) : device.sockets[1].out[k] # StopMessage
  /\ sharer.mounted /\ sharer.shouldBeSharing
  /\ last.op = "open" /\ last.conn = 2
  /\ ReannouncedAfter(1)

\* the viewer was mounted and its cleanup has run
TornDown == ~viewer.mounted /\ browser.sockets # <<>>

\* C21: after the viewer (useLocationViewer / useFleetViewer) is unmounted it
\* creates no further socket and no heartbeat interval or reconnect timeout
\* of it exists; the close event of the socket closed by the cleanup
\* schedules nothing.
C21_ViewerTornDownForGood ==
  [][TornDown' =>
       /\ browser'.timeouts = {}
       /\ browser'.intervals = {}
       /\ TornDown => Len(browser'.sockets) = Len(browser.sockets)]_vars

\* socket i of the mounted viewer has closed, no newer socket exists and the
\* run has one left to create
ViewerLostSocket(i) ==
  /\ viewer.mounted
  /\ Len(browser.sockets) = i /\ i < MaxSockets
  /\ browser.sockets[i].readyState = "CLOSED"

\* a socket created after socket i has been opened
ViewerReopenedAfter(i) ==
  \E j \in (i + 1)..Len(browser.sockets) : browser.sockets[j].server # 0

\* the step is the open of socket i
ViewerOpens(i) ==
  /\ browser.sockets[i].readyState = "CONNECTING"
  /\ browser'.sockets[i].readyState = "OPEN"

\* the viewer sends in a step exactly when a socket opens: one subscribe /
\* subscribeFleet with the viewer's key, on that socket
SubscribesOncePerOpen ==
  /\ \A i \in 1..Len(browser.sockets) :
       ViewerOpens(i) =>
         wire' = Append(wire, [conn |-> browser'.sockets[i].server,
                               type |-> IF workload = "solo" THEN "subscribe"
                                        ELSE "subscribeFleet",
                               key |-> ViewerKey])
  /\ Len(wire') > Len(wire) => \E i \in 1..Len(browser.sockets) : ViewerOpens(i)

\* C24: while the viewer is mounted every close of its socket is eventually
\* followed by a new socket that opens (timeouts fire, the server accepts
\* connections), and on every open the viewer sends exactly one subscribe /
\* subscribeFleet message carrying its key.
C24_ViewerReconnectsAndResubscribes ==
  /\ \A i \in 1..MaxSockets : ViewerLostSocket(i) ~> (ViewerReopenedAfter(i) \/ ~viewer.mounted)
  /\ [][SubscribesOncePerOpen]_vars

\* the first socket of the mounted viewer has closed and the second has just
\* opened and sent its subscribe
C24_Witness ==
  /\ viewer.mounted
  /\ Len(browser.sockets) = 2
  /\ browser.sockets[1].readyState = "CLOSED"
  /\ browser.sockets[1].server # 0
  /\ browser.sockets[2].readyState = "OPEN"
  /\ last.op = "connection" /\ last.conn = browser.sockets[2].server
  /\ wire # <<>> /\ wire[Len(wire)] = SubscribeMessage(browser.sockets[2].server)

\* C22: once stopSharing has been called and every wake-lock request in
\* flight has been settled, no sentinel obtained by the publisher still holds
\* a lock, whatever the number of reconnects and the order of grant and stop.
C22_NoWakeLockAfterStop ==
  (~sharer.shouldBeSharing /\ lock.requests = 0) => lock.held = {}

\* the platform has just released the lock of a sentinel of the mounted
\* publisher while sharing is requested (the document is visible)
RevokedWhileSharing ==
  last'.op = "lock.revoked" /\ sharer.mounted /\ sharer.shouldBeSharing

\* C23: every time the platform releases the publisher's wake lock while
\* sharing is requested and the document is visible, the publisher makes a
\* new wake-lock request: at the first release and at every release of a
\* lock obtained again in the same session.
C23_RevokedLockIsRequestedAgain ==
  [][RevokedWhileSharing => lock'.asked = lock.asked + 1]_vars

\* the coordinate pairs that one create or one update writes
WrittenPairs ==
  {<<0, 0>>} \cup {ParsedData(d) : d \in {x \in Payloads : ValidUpdate(x)}}

\* the record carries the coordinates of one single create or update
OfOneWrite(rec) == <<rec.latitude, rec.longitude>> \in WrittenPairs

\* a vehicle record has no position, or the coordinates of one single update
VehicleOfOneWrite(rec) ==
  \/ rec.latitude = <<>> /\ rec.longitude = <<>>
  \/ /\ Len(rec.latitude) = 1 /\ Len(rec.longitude) = 1
     /\ <<rec.latitude[1], rec.longitude[1]>> \in WrittenPairs

\* the records the last step sent to a client
SentRecords(type) ==
  {sent[i].data : i \in {j \in 1..Len(sent) : sent[j].type = type}}

\* C25: whatever updates of one key are in progress together, the stored
\* location or vehicle has the latitude and the longitude of one single
\* update (or of its creation), and so has every record the server reads out
\* to a client.
C25_CoordinatesOfOneUpdate ==
  /\ \A id \in DOMAIN locations : OfOneWrite(locations[id])
  /\ \A v \in DOMAIN vehicles : VehicleOfOneWrite(vehicles[v])
  /\ \A rec \in SentRecords("location") : OfOneWrite(rec)
  /\ \A rec \in SentRecords("vehicleUpdate") : VehicleOfOneWrite(rec)
  /\ \A i \in 1..Len(sent) :
       sent[i].type = "vehicles" =>
         \A k \in 1..Len(sent[i].data) : VehicleOfOneWrite(sent[i].data[k])

\* an update of l1 has just written its record while another update of l1
\* with other coordinates, started before that write, is still suspended
C25_Witness ==
  /\ last.op = "update.set" /\ last.res = {TRUE}
  /\ mq # <<>>
  /\ Head(mq).pc = "update.set" /\ Head(mq).key = last.key /\ Head(mq).rec # {}
  /\ last.key \in DOMAIN locations
  /\ <<locations[last.key].latitude, locations[last.key].longitude>> # Head(mq).upd

\* the records a message of the server carries: 'stopped' has no payload and
\* 'vehicleStopped' only a vehicle id
RecordsIn(m) ==
  CASE m.type = "vehicles" -> Range(m.data)
    [] m.type \in {"location", "vehicleUpdate"} -> {m.data}
    [] OTHER -> {}

NoAdminCode(rec) == "adminCode" \notin DOMAIN rec

\* C26: the response of GET /api/fleets/:id has no adminCode field, and no
\* record in a message the server sends over a WebSocket has one.
C26_AdminCodeNotExposed ==
  /\ last.op = "getFleet" => \A rec \in last.res : NoAdminCode(rec)
  /\ \A i \in 1..Len(sent) :
       /\ sent[i].type \in {"location", "stopped", "vehicles", "vehicleUpdate",
                            "vehicleStopped"}
       /\ \A rec \in RecordsIn(sent[i]) : NoAdminCode(rec)

\* a stored fleet, which has an admin code, has just been read by its id
C26_Witness ==
  /\ last.op = "getFleet"
  /\ last.res # {}
  /\ last.key \in DOMAIN fleets
  /\ "adminCode" \in DOMAIN fleets[last.key]
  /\ \A rec \in last.res : rec.id = last.key /\ rec.name = fleets[last.key].name

\* the vehicles of fleet f in the store
VehiclesIn(V, f) == {v \in DOMAIN V : V[v].fleetId = f}

\* a step of POST /api/vehicles that created a vehicle
VehicleCreated == last'.op = "createVehicle" /\ last'.res # {}

\* C27: a vehicle created without a color of its own gets the palette color
\* at index n mod 8, n being the number of vehicles its fleet has in the store
\* when it is created.
C27_ColorByMemberCount ==
  [][VehicleCreated =>
       \A vehicle \in last'.res :
          /\ vehicle.id \notin DOMAIN vehicles
          /\ vehicles'[vehicle.id] = vehicle
          /\ vehicle.color =
               VEHICLE_COLORS[(Cardinality(VehiclesIn(vehicles, vehicle.fleetId)) % 8) + 1]]_vars

\* the third vehicle ever created has just been given the color that another
\* vehicle of its fleet, still in the store, has: one was deleted before
C27_Witness ==
  /\ last.op = "createVehicle"
  /\ Len(createdVehs) = 3
  /\ \A vehicle \in last.res :
       /\ vehicle.id = "v3"
       /\ vehicle.color = VEHICLE_COLORS[2]
       /\ \E w \in VehiclesIn(vehicles, vehicle.fleetId) \ {vehicle.id} :
            vehicles[w].color = vehicle.color
  /\ last.res # {}

\* the ninth vehicle of a fleet that lost none has the color of the first
C27_WrapsAround ==
  /\ last.op = "createVehicle"
  /\ last.res # {}
  /\ \A vehicle \in last.res :
       /\ Cardinality(VehiclesIn(vehicles, vehicle.fleetId)) = 9
       /\ vehicle.color = VEHICLE_COLORS[1]

\* a read by id of a stored record at or after its expiry timestamp
ReadAtOrAfterExpiry(op, store) ==
  /\ last'.op = op
  /\ last'.key \in DOMAIN store
  /\ store[last'.key].expiresAt <= now

\* C28: a getLocation / getFleet made when the clock has reached the record's
\* expiry timestamp, the instant of expiry included, returns not-found and
\* removes the record.
C28_UnreadableFromExpiryInstant ==
  [][/\ ReadAtOrAfterExpiry("getLocation", locations)
          => last'.res = {} /\ last'.key \notin DOMAIN locations'
     /\ ReadAtOrAfterExpiry("getFleet", fleets)
          => last'.res = {} /\ last'.key \notin DOMAIN fleets']_vars

\* the fields of a location and of a vehicle that an update leaves alone
LocationFrame == {"id", "name", "createdAt", "expiresAt", "isLive"}
VehicleFrame == {"id", "name", "fleetId", "color", "shareCode", "isLive"}

SameOn(fields, old, new) ==
  /\ DOMAIN new = DOMAIN old
  /\ \A f \in fields : new[f] = old[f]

\* a step in which storage.updateLocation writes its record
LocationUpdated == last'.op \in {"update.set", "stop.set"} /\ locations' # locations

\* a step in which storage.updateVehicle writes its record
VehicleUpdated == last'.op = "updateVehicle" /\ vehicles' # vehicles

\* C29: the write of an update keeps the id, name, creation and expiry
\* timestamps and live flag of the stored location, and the id, name, fleet
\* id, color, share code and live flag of the stored vehicle: only latitude,
\* longitude and lastUpdated may differ.
C29_UpdateKeepsTheRest ==
  [][/\ LocationUpdated =>
          /\ \A id \in DOMAIN locations : id \in DOMAIN locations'
          /\ \A id \in DOMAIN locations' \ {last'.key} :
               id \in DOMAIN locations /\ locations'[id] = locations[id]
          /\ last'.key \in DOMAIN locations =>
               SameOn(LocationFrame, locations[last'.key], locations'[last'.key])
     /\ VehicleUpdated =>
          /\ DOMAIN vehicles' = DOMAIN vehicles
          /\ \A v \in DOMAIN vehicles \ {last'.key} : vehicles'[v] = vehicles[v]
          /\ SameOn(VehicleFrame, vehicles[last'.key], vehicles'[last'.key])]_vars

\* an update has just written new coordinates and a later lastUpdated into
\* l1, whose expiry is still the one its creation gave it
C29_Witness ==
  /\ last.op = "update.set" /\ last.res = {TRUE}
  /\ last.key \in DOMAIN locations
  /\ locations[last.key].lastUpdated > locations[last.key].createdAt
  /\ <<locations[last.key].latitude, locations[last.key].longitude>> # <<0, 0>>
  /\ locations[last.key].expiresAt = locations[last.key].createdAt + DefaultExpiry

\* the heartbeat of socket i ticks while the socket is open and a position is
\* cached
HeartbeatWithCache(i) ==
  /\ last'.op = "heartbeat" /\ last'.conn = i
  /\ i \in device.intervals
  /\ device.sockets[i].readyState = "OPEN"
  /\ sharer.lastLocationRef

\* C30: a heartbeat tick on an open socket with a cached position appends
\* exactly one update / updateVehicle message with the cached position to
\* that socket, sends nothing on any other socket, and starts no read of the
\* location provider and no watch.
C30_HeartbeatResendsCache ==
  [][\A i \in 1..Len(device.sockets) :
       HeartbeatWithCache(i) =>
         /\ device'.sockets[i].out = Append(device.sockets[i].out, UpdateMessage("cache"))
         /\ device'.sockets[i].readyState = "OPEN"
         /\ \A j \in 1..Len(device.sockets) \ {i} : device'.sockets[j] = device.sockets[j]
         /\ Len(device'.sockets) = Len(device.sockets)
         /\ device'.reads = device.reads
         /\ device'.watches = device.watches
         /\ sharer' = sharer]_vars

\* the only socket there has been has announced, sent the position a read
\* gave, and its heartbeat has just sent that same position again
C30_Witness ==
  /\ last.op = "heartbeat"
  /\ Len(device.sockets) = 1
  /\ device.sockets[1].readyState = "OPEN"
  /\ device.sockets[1].out = <<ShareMessage, UpdateMessage("read"), UpdateMessage("cache")>>

\* ------------------------------------------------ one hook in one page
\* A page mounts one of the two hooks: the share page the publisher, the view
\* page the viewer. A run is the run of one of them.
SharerAtStart == device.sockets = <<>> /\ sharer.mounted /\ ~sharer.shouldBeSharing
ViewerAtStart == browser.sockets = <<>> /\ ~viewer.mounted

ManagerNext ==
  \/ ViewerAtStart /\ SharerNext
  \/ SharerAtStart /\ ViewerHookNext

SpecManagers == Init /\ [][ManagerNext]_vars


\* the publisher's heartbeat of socket i ticks while the socket is not open
\* and sharing is wanted
DeadSharerTick(i) ==
  /\ last'.op = "heartbeat" /\ last'.conn = i
  /\ i \in device.intervals
  /\ device.sockets[i].readyState # "OPEN"
  /\ sharer.shouldBeSharing

\* the viewer's heartbeat of socket i ticks while the socket is not open
DeadViewerTick(i) ==
  /\ last'.op = "viewer.heartbeat"
  /\ i \in browser.intervals
  /\ browser.sockets[i].readyState # "OPEN"

\* C31: a heartbeat tick on a transport that is not open (publisher: while
\* sharing is wanted) stops the heartbeat and leaves a reconnect timeout
\* pending and recorded in the hook's ref, as the close event does, while the
\* socket has not reached its close event.
C31_DeadHeartbeatReconnects ==
  [][/\ \A i \in 1..Len(device.sockets) :
          DeadSharerTick(i) =>
            /\ device'.intervals = {} /\ sharer'.heartbeatRef = 0
            /\ sharer'.reconnectTimeoutRef # NoTimeout
            /\ sharer'.reconnectTimeoutRef \in device'.timeouts \ device.timeouts
            /\ onclose(i).sharer.reconnectTimeoutRef \in onclose(i).device.timeouts
            /\ device'.sockets = device.sockets
     /\ \A i \in 1..Len(browser.sockets) :
          DeadViewerTick(i) =>
            /\ browser'.intervals = {} /\ viewer'.heartbeatRef = 0
            /\ viewer'.reconnectTimeoutRef # NoTimeout
            /\ viewer'.reconnectTimeoutRef \in browser'.timeouts \ browser.timeouts
            /\ browser'.sockets = browser.sockets]_vars

\* the publisher's heartbeat has found its socket closing, before the close
\* event: the interval is gone and a reconnect is pending
C31_Witness ==
  /\ last.op = "heartbeat"
  /\ sharer.shouldBeSharing
  /\ device.sockets[last.conn].readyState = "CLOSING"
  /\ device.intervals = {}
  /\ sharer.reconnectTimeoutRef = <<"heartbeat", last.conn>>
  /\ sharer.reconnectTimeoutRef \in device.timeouts

\* the same for the viewer
C31_ViewerCase ==
  /\ last.op = "viewer.heartbeat"
  /\ viewer.wsRef # 0
  /\ browser.sockets[viewer.wsRef].readyState = "CLOSING"
  /\ browser.intervals = {}
  /\ viewer.reconnectTimeoutRef = <<"heartbeat", viewer.wsRef>>
  /\ viewer.reconnectTimeoutRef \in browser.timeouts

\* C32: whenever a socket of the viewer opens, a fetch of the current state
\* over HTTP (GET /api/locations/:id, or the vehicles of the fleet) is under
\* way after the open, beside the subscribe message the open sends.
C32_OpenStartsRefetch ==
  [][\A i \in 1..Len(browser.sockets) : ViewerOpens(i) => browser'.fetching]_vars

\* the same for the opens of a socket that replaces an earlier one, leaving
\* aside the first open, which the page's own first query accompanies
C32_ReopenStartsRefetch ==
  [][\A i \in 2..Len(browser.sockets) : ViewerOpens(i) => browser'.fetching]_vars

\* connection b is open, publishes the location key and is the registered
\* publisher; connection a published the key before b took it over
SupersededOn(a, b, key) ==
  /\ a # b
  /\ conn[a].sharingLocationId = key
  /\ IsOpen(b) /\ conn[b].sharingLocationId = key
  /\ <<key, b>> \in sharerConnections

\* the same for a vehicle
SupersededOnVehicle(a, b, v) ==
  /\ a # b
  /\ conn[a].sharingVehicleId = v
  /\ IsOpen(b) /\ conn[b].sharingVehicleId = v
  /\ <<v, b>> \in vehicleSharerConnections

\* a step of the close handler or of the stop / stopVehicle branch of a
EndsSession(a) ==
  /\ last'.conn = a
  /\ last'.op \in {"close", "stop", "stop.update", "stop.set", "stop.notify",
                   "stopVehicle", "stopVehicle.live", "stopVehicle.notify"}

\* C33: while a later publisher b of a key is connected and registered, the
\* close or the stop of the connection a it superseded leaves b registered,
\* sends no stopped / vehicleStopped notification and does not clear the
\* vehicle's live flag.
C33_SupersededLeavesSuccessor ==
  [][\A a, b \in DOMAIN conn :
       EndsSession(a) =>
         /\ \A key \in LocKeys :
              SupersededOn(a, b, key) =>
                /\ <<key, b>> \in sharerConnections'
                /\ \A i \in 1..Len(sent') : sent'[i].type # "stopped"
         /\ \A v \in VehKeys :
              SupersededOnVehicle(a, b, v) =>
                /\ <<v, b>> \in vehicleSharerConnections'
                /\ \A i \in 1..Len(sent') : sent'[i].type # "vehicleStopped"
                /\ (v \in DOMAIN vehicles /\ vehicles[v].isLive)
                     => (v \in DOMAIN vehicles' /\ vehicles'[v].isLive)]_vars

\* the step in which the stop / stopVehicle branch of connection c ends
StopHandled(c) == last'.conn = c /\ ~conn[c].stopped /\ conn'[c].stopped

\* the close of a connection whose stop / stopVehicle has been handled
ClosesAfterStop(c) == last'.op = "close" /\ last'.conn = c /\ conn[c].stopped

\* in the step each open connection of `subscribers` is sent one message, of
\* the type, and no other connection is sent anything
NotifiedOnceInStep(subscribers, type) ==
  /\ \A i \in 1..Len(sent') : sent'[i].to \in subscribers /\ sent'[i].type = type
  /\ \A s \in subscribers :
       Cardinality({i \in 1..Len(sent') : sent'[i].to = s}) = IF IsOpen(s) THEN 1 ELSE 0

\* the stop of a location's publisher notifies once, and its close not again
StopThenCloseSolo(c) ==
  /\ (StopHandled(c) /\ conn[c].sharingLocationId # NULL)
       => NotifiedOnceInStep(Subscribers(locationSubscribers, conn[c].sharingLocationId),
                             "stopped")
  /\ ClosesAfterStop(c) => \A i \in 1..Len(sent') : sent'[i].type # "stopped"

C35_OpenSocketHasHeartbeatAndWatch ==
  (sharer.mounted /\ sharer.shouldBeSharing /\ SharerReadyState(Publisher) = "OPEN")
    => /\ sharer.wsRef \in device.intervals /\ sharer.heartbeatRef = sharer.wsRef
       /\ sharer.wsRef \in device.watches /\ sharer.watchIdRef = sharer.wsRef


\* C36: a connection manager has at most one reconnect timeout pending and
\* it is the one held in reconnectTimeoutRef.
OnePendingReconnect(timeouts, ref) ==
  /\ Cardinality(timeouts) <= 1
  /\ timeouts \subseteq {ref}

C36_OneReconnectPending ==
  /\ OnePendingReconnect(device.timeouts, sharer.reconnectTimeoutRef)
  /\ OnePendingReconnect(browser.timeouts, viewer.reconnectTimeoutRef)

\* C36, the case the claim names: no state has both the timeout of the
\* dead-heartbeat tick and the timeout of the close event of one socket.
C36_TickAndCloseOfOneSocket ==
  /\ \A i \in 1..Len(device.sockets) :
       ~({<<"heartbeat", i>>, <<"close", i>>} \subseteq device.timeouts)
  /\ \A i \in 1..Len(browser.sockets) :
       ~({<<"heartbeat", i>>, <<"close", i>>} \subseteq browser.timeouts)


\* ------------------------------------- the viewer's page and the publisher
\* The viewer hook receives what the server sends to its socket. ws.onmessage
\* runs for every message of the last step that was sent to a connection
\* whose socket in the browser has not closed, before anything else happens.

ReachesViewer(m) ==
  \E i \in 1..Len(browser.sockets) :
    /\ browser.sockets[i].server = m.to
    /\ browser.sockets[i].readyState # "CLOSED"

ToViewer == IF viewer.mounted THEN SelectSeq(sent, ReachesViewer) ELSE <<>>

\* useLocationViewer ws.onmessage: the value of isLive after message m
onLocationMessage(isLive, m) ==
  IF m.type = "location" THEN TRUE
  ELSE IF m.type = "stopped" THEN FALSE
  ELSE isLive

\* prev.map(v => v.id === id ? f(v) : v)
MapById(list, id, f(_)) ==
  [k \in 1..Len(list) |-> IF list[k].id = id THEN f(list[k]) ELSE list[k]]

\* useFleetViewer ws.onmessage: the vehicle list after message m
onFleetMessage(list, m) ==
  IF m.type = "vehicles" THEN m.data
  ELSE IF m.type = "vehicleUpdate"
       THEN LET updatedVehicle == m.data
                Replace(v) == updatedVehicle
            IN MapById(list, updatedVehicle.id, Replace)
  ELSE IF m.type = "vehicleStopped"
       THEN LET NotLive(v) == [v EXCEPT !.isLive = FALSE]
            IN MapById(list, m.data, NotLive)
  ELSE list

RECURSIVE onMessages(_, _)
\* the message events of msgs, in order
onMessages(v, msgs) ==
  IF msgs = <<>> THEN v
  ELSE onMessages([v EXCEPT !.isLive = onLocationMessage(@, Head(msgs)),
                            !.vehicles = onFleetMessage(@, Head(msgs))],
                  Tail(msgs))

ViewerOnMessage ==
  /\ ToViewer # <<>>
  /\ viewer' = onMessages(viewer, ToViewer)
  /\ last' = [op |-> "viewer.onmessage", conn |-> last.conn, key |-> last.key,
              res |-> {}, data |-> ToViewer]
  /\ sent' = <<>>
  /\ UNCHANGED <<storeVars, conn, registryVars, mq, nmsgs, workload, browser, wire,
                 sharerVars>>

\* the viewer, which mounts once and reconnects when its socket closes, beside
\* one publisher that shares, updates, stops and disconnects
LiveStep ==
  \/ ViewerMount
  \/ \E i \in 1..MaxSockets : SocketOpen(i)
  \/ \E i \in 1..MaxSockets : SocketClose(i)
  \/ \E t \in {"close"} \X (1..MaxSockets) : ReconnectFires(t)
  \/ ViewerSubscribeArrives
  \/ (\A c \in DOMAIN conn : ~Other(c)) /\ Connect
  \/ \E c \in 1..MaxConns : ~Other(c) /\ Close(c)
  \/ workload = "solo" /\ \E ins \in LiveInserts : PostLocation(ins)
  \/ workload = "solo" /\ \E c \in 1..MaxConns, id \in LocKeys : Other(c) /\ RecvShare(c, id)
  \/ workload = "solo" /\ \E c \in 1..MaxConns, d \in PublisherPayloads :
                            Other(c) /\ RecvUpdate(c, d)
  \/ workload = "solo" /\ \E c \in 1..MaxConns : Other(c) /\ RecvStop(c)
  \/ SubscribeSend
  \/ UpdateSet
  \/ UpdateBroadcast
  \/ StopUpdate
  \/ StopSet
  \/ StopNotify
  \/ workload = "fleet" /\ PostFleet
  \/ workload = "fleet" /\ createdVehs = <<>> /\ \E id \in FleetKeys : PostVehicle(id)
  \/ workload = "fleet" /\ \E c \in 1..MaxConns, id \in VehKeys :
                             Other(c) /\ RecvShareVehicle(c, id)
  \/ workload = "fleet" /\ \E c \in 1..MaxConns, d \in PublisherPayloads :
                             Other(c) /\ RecvUpdateVehicle(c, d)
  \/ workload = "fleet" /\ \E c \in 1..MaxConns : Other(c) /\ RecvStopVehicle(c)
  \/ SubscribeFleetList
  \/ SubscribeFleetSend
  \/ UpdateVehicleBroadcast
  \/ StopVehicleLive
  \/ StopVehicleNotify

LiveNext ==
  \/ ViewerOnMessage
  \/ ToViewer = <<>> /\ LiveStep

SpecLive == Init /\ [][LiveNext]_vars


\* an open connection publishes on the key
Broadcasting(key) ==
  \E c \in DOMAIN conn : IsOpen(c) /\ conn[c].sharingLocationId = key

\* C37: the solo viewer's live indicator is true after a message only while
\* a publisher is broadcasting on its location.
C37_LiveOnlyWhileBroadcasting ==
  [][(last'.op = "viewer.onmessage" /\ workload = "solo" /\ viewer'.isLive)
       => Broadcasting(ViewerKey)]_vars

\* C37, the reconnect case: the indicator is turned on by a publisher's
\* update and by nothing else, so that it stays false after 'stopped' until
\* the next update.
C37_TurnedOnByUpdateOnly ==
  [][(last'.op = "viewer.onmessage" /\ ~viewer.isLive /\ viewer'.isLive)
       => last.op = "update.broadcast"]_vars


\* the viewer has processed a vehicleUpdate
ProcessedVehicleUpdate ==
  /\ last.op = "viewer.onmessage"
  /\ \E k \in 1..Len(last.data) : last.data[k].type = "vehicleUpdate"

\* C38: after the fleet viewer has processed a vehicleUpdate its list holds
\* the vehicle with the state the message carried.
C38_UpdateIsInTheList ==
  ProcessedVehicleUpdate =>
    \A k \in 1..Len(last.data) :
      last.data[k].type = "vehicleUpdate" =>
        \E j \in 1..Len(viewer.vehicles) : viewer.vehicles[j] = last.data[k].data


\* the records stored before and after the step have the same coordinates
SameCoordinates ==
  \A id \in DOMAIN locations \cap DOMAIN locations' :
    /\ locations'[id].latitude = locations[id].latitude
    /\ locations'[id].longitude = locations[id].longitude

\* C39: no step of the stop branch changes the latitude or the longitude of
\* a location record; the coordinates stay those of the last update.
C39_StopKeepsCoordinates ==
  [][last'.op \in {"stop", "stop.update", "stop.set", "stop.notify"} => SameCoordinates]_vars


\* C39, the interleaved case: the coordinates a stop reads, and later writes
\* back, are those of the last update received from the connection before
\* it; no such update is still waiting to be written.
C39_StopReadsTheLastUpdate ==
  (last.op = "stop" /\ last.key # NULL /\ last.key \in DOMAIN locations) =>
    \A k \in 1..Len(mq) :
      (mq[k].conn = last.conn /\ mq[k].pc = "update.set" /\ mq[k].rec # {})
        => mq[k].upd = <<locations[last.key].latitude, locations[last.key].longitude>>


\* ------------------------------ publishing with several channel keys
\* the handlers that subscribe, share and update, with messages that name any
\* location, fleet or vehicle id
ChannelNext ==
  \/ Connect
  \/ \E c \in 1..MaxConns : Close(c)
  \/ workload = "solo" /\ \E ins \in LiveInserts : PostLocation(ins)
  \/ workload = "solo" /\ \E c \in 1..MaxConns, id \in LocIds : RecvSubscribe(c, id)
  \/ workload = "solo" /\ \E c \in 1..MaxConns, id \in LocIds : RecvShare(c, id)
  \/ workload = "solo" /\ \E c \in 1..MaxConns, d \in PublisherPayloads : RecvUpdate(c, d)
  \/ SubscribeSend
  \/ UpdateSet
  \/ UpdateBroadcast
  \/ workload = "fleet" /\ PostFleet
  \/ workload = "fleet" /\ createdVehs = <<>> /\ \E id \in FleetKeys : PostVehicle(id)
  \/ workload = "fleet" /\ \E c \in 1..MaxConns, id \in FleetIds : RecvSubscribeFleet(c, id)
  \/ workload = "fleet" /\ \E c \in 1..MaxConns, id \in VehIds : RecvShareVehicle(c, id)
  \/ workload = "fleet" /\ \E c \in 1..MaxConns, d \in PublisherPayloads :
                             RecvUpdateVehicle(c, d)
  \/ SubscribeFleetList
  \/ SubscribeFleetSend
  \/ UpdateVehicleBroadcast

SpecChannels == Init /\ [][ChannelNext]_vars

\* the message carries data of a channel its receiver has subscribed to; a
\* connection that is open is a member of the set of every key it named
OfSubscribedChannel(m) ==
  IF m.type = "location"
  THEN m.to \in Subscribers(locationSubscribers, m.data.id)
  ELSE IF m.type = "vehicleUpdate"
  THEN m.to \in Subscribers(fleetSubscribers, m.data.fleetId)
  ELSE IF m.type = "vehicles"
  THEN \A k \in 1..Len(m.data) : m.to \in Subscribers(fleetSubscribers, m.data[k].fleetId)
  ELSE IF m.type = "vehicleStopped" /\ m.data \in DOMAIN vehicles
  THEN m.to \in Subscribers(fleetSubscribers, vehicles[m.data].fleetId)
  ELSE TRUE

\* C40: channel isolation: location data and vehicle data are sent only to
\* connections that subscribed to the location id or to the fleet id the
\* data belongs to.
C40_ChannelIsolation == \A k \in 1..Len(sent) : OfSubscribedChannel(sent[k])


\* C40, between clients: the same for the messages sent to connections other
\* than the one whose message is being handled.
C40_IsolationBetweenConnections ==
  \A k \in 1..Len(sent) : sent[k].to # last.conn => OfSubscribedChannel(sent[k])

=============================================================================
